---- MODULE Spec2Model ----
(***************************************************************************)
(* Orchestration core of ChakraAgents.ai: the LangGraph workflow runner    *)
(* (router / agent / final nodes), the agent decision parser, the hybrid   *)
(* engine's sequential coordination and the execution record's status.     *)
(*                                                                         *)
(* Reply texts are sequences of tokens.  A token stands for one piece of   *)
(* text that the parser's regular expressions can tell apart:              *)
(*   action    "[ACTION: <verb> <name>]"                                   *)
(*   content   "[CONTENT: <payload>]"                                      *)
(*   tool      "[TOOL: <name>] ... [/TOOL]"                                *)
(*   nl_deleg  "ask <name>"                                                *)
(*   nl_final  "final answer"                                              *)
(*   nl_tool   "I will use the <name> tool"                                *)
(*   words     any other text                                              *)
(* Names are written with their letter case; Lower is str.lower().         *)
(***************************************************************************)
EXTENDS Integers, Sequences, FiniteSets, TLC

VARIABLES
    cfg,          \* template.config / workflow_type of the run (fixed at construction)
    state,        \* the WorkflowState handed from node to node
    pc,           \* the graph node that runs next, or "idle" / "END" / "raised" / "returned"
    status,       \* WorkflowExecution.status of the execution record
    invocations,  \* the agents the Model Invoker was called for, in call order
    result,       \* what execute_workflow returned (NoResult until it returns)
    pin,          \* parser harness: the input (content, agent_name, agent_role, context)
    pout,         \* parser harness: the Decision returned (NoDecision before the call)
    hyb,          \* hybrid engine, sequential coordination: its local variables
    plog,         \* parser harness: the Decisions returned by the calls made so far
    tool,         \* ToolRegistry.execute_tool: one call, its position and result
    cache,        \* the response cache, the clock and the calls of a cached function
    bucket,       \* RequestThrottler: the token bucket, the clock and its acquirers
    retry,        \* with_retries: one call, its loop variables and outcome
    ckpt,         \* WorkflowCheckpointer: the checkpoint directory and the saves made
    dfs,          \* has_cycle: the graph handed in and the value returned
    iter,         \* hybrid engine, iterative coordination: its local variables
    prompt,       \* AgentPromptCreator: the agent config handed in and what came back
    lru,          \* an LRUCache of small max_size, the clock and the last operation on it
    dyn,          \* hybrid engine, dynamic coordination: the traversal's local variables
    par           \* hybrid engine, parallel coordination: the tasks and the awaiting caller

vars == <<cfg, state, pc, status, invocations, result, pin, pout, hyb,
          plog, tool, cache, bucket, retry, ckpt, dfs, iter, prompt, lru, dyn, par>>

\* the variables of the run, the parser harness and the hybrid engine
coreVars == <<cfg, state, pc, status, invocations, result, pin, pout, hyb, plog>>

\* the variables of the tool registry, the concurrency toolkit and the cycle check
libVars == <<tool, cache, bucket, retry, ckpt, dfs>>

\* the variables of the iterative hybrid mode and of the prompt builder
extVars == <<iter, prompt>>

\* the variables of the components modelled on their own after those
moreVars == <<lru, dyn, par>>

None == "None"

\* a component on which nothing has been called
Off == [pc |-> "off"]

ExtIdle ==
    /\ iter = Off
    /\ prompt = Off

MoreIdle ==
    /\ lru = Off
    /\ dyn = Off
    /\ par = Off

LibIdle ==
    /\ tool = Off
    /\ cache = Off
    /\ bucket = Off
    /\ retry = Off
    /\ ckpt = Off
    /\ dfs = Off

-----------------------------------------------------------------------------
(* Texts *)

Tok(k, verb, name) == [k |-> k, verb |-> verb, name |-> name]
ActionTag(verb, name) == Tok("action", verb, name)
ContentTag(payload) == Tok("content", "", payload)
ToolTag(name) == Tok("tool", "", name)
\* a tool block with a body: params is "json" (valid JSON) or "text" (anything else)
ToolTagWith(name, params) == Tok("tool", params, name)
NlDelegate(name) == Tok("nl_deleg", "", name)
NlFinal == Tok("nl_final", "", "")
NlTool(name) == Tok("nl_tool", "", name)
Words(payload) == Tok("words", "", payload)

\* str.lower() on the names the model uses
Lower(n) ==
    CASE n = "S" -> "s"
      [] n = "W1" -> "w1"
      [] n = "W2" -> "w2"
      [] n = "A2" -> "a2"
      [] OTHER -> n

Min(S) == CHOOSE x \in S : \A y \in S : x <= y

SeqToSet(s) == {s[i] : i \in DOMAIN s}

\* index of the first token of kind k (re.search returns the leftmost match), 0 if none
FirstOf(content, k) ==
    LET I == {i \in DOMAIN content : content[i].k = k}
    IN  IF I = {} THEN 0 ELSE Min(I)

-----------------------------------------------------------------------------
(* AgentDecisionParser.parse_agent_decision *)

Decision(action_type, target, content, reasoning, tool_name) ==
    [action_type |-> action_type, target |-> target, content |-> content,
     reasoning |-> reasoning, tool_name |-> tool_name, tool_params |-> "{}"]

\* an exception raised inside the try block, carried to the except branch
Raised(content) == Decision("raised", None, content, "exception", None)

\* re.search can compile the patterns built from this agent name
CompilesAsPattern(n) == n # "W("

\* Strategy 2: json.loads of the block's body, the key: value heuristic when it is not JSON
ToolParams(t) ==
    CASE t.verb = "json" -> "parsed"
      [] t.verb = "text" -> "heuristic"
      [] OTHER -> "{}"

\* Strategy 1, delegation branch: the tag body is lower-cased before the target
\* is extracted, and the extracted target is looked up in available_agents as is.
ExplicitTarget(a) == Lower(a.name)

HasDelegateMatch(a) == a.verb \in {"delegate to", "delegate"} /\ a.name # ""

\* any(word in action for word in ["final", "complete", "done", "finish"])
HasFinalWord(a) == a.verb = "final"

\* [CONTENT: ...] block if present, else the whole reply
ContentToSend(content) ==
    LET c == FirstOf(content, "content")
    IN  IF c = 0 THEN content ELSE <<Words(content[c].name)>>

\* one of the delegation_patterns, built from target_agent with (?i), matches the reply;
\* the text of a "[ACTION: delegate to X]" tag itself matches "delegate\s+to\s+X"
NlDelegationMatches(content, target_agent) ==
    \E i \in DOMAIN content :
        /\ \/ content[i].k = "nl_deleg"
           \/ content[i].k = "action" /\ content[i].verb = "delegate to"
        /\ Lower(content[i].name) = Lower(target_agent)

\* Strategy 3, first loop: the first available agent other than the speaker whose
\* patterns match, or whose patterns do not compile (re.search then raises)
NlDelegateTarget(content, agent_name, available_agents) ==
    LET I == {i \in DOMAIN available_agents :
                 /\ available_agents[i] # agent_name
                 /\ \/ ~CompilesAsPattern(available_agents[i])
                    \/ NlDelegationMatches(content, available_agents[i])}
    IN  IF I = {} THEN None ELSE available_agents[Min(I)]

\* Strategy 3, tool phrases: the leftmost phrase, matched against context["tools_available"]
NlToolTarget(content, tools_available) ==
    LET t == FirstOf(content, "nl_tool")
        I == IF t = 0 THEN {}
             ELSE {i \in DOMAIN tools_available :
                      Lower(content[t].name) = Lower(tools_available[i])}
    IN  IF I = {} THEN None ELSE tools_available[Min(I)]

\* Strategy 4: the supervisor or hub a worker reports back to
ReportTarget(context) ==
    LET I == {i \in DOMAIN context.available_agents :
                 \/ context.agent_roles[context.available_agents[i]] = "supervisor"
                 \/ context.available_agents[i] = context.hub_agent}
    IN  IF I = {} THEN None ELSE context.available_agents[Min(I)]

RoleDefault(content, agent_role, context) ==
    IF agent_role = "supervisor" /\ context.workflow_type \in {"supervisor", "agentic"}
    THEN IF context.workers # <<>> /\ context.iteration = 0
         THEN Decision("delegate", context.workers[1], content,
                       "Supervisor implicitly delegating in first iteration", None)
         ELSE Decision("final", None, content,
                       "Supervisor providing final response after worker delegations", None)
    ELSE IF /\ agent_role \in {"worker", "spoke"}
            /\ context.workflow_type \in {"supervisor", "agentic", "hub_and_spoke"}
            /\ ReportTarget(context) # None
    THEN Decision("delegate", ReportTarget(context), content, "Worker reporting back", None)
    ELSE Decision("respond", None, content, "Default response", None)

NaturalLanguage(content, agent_name, agent_role, context) ==
    LET nl == NlDelegateTarget(content, agent_name, context.available_agents)
        tl == NlToolTarget(content, context.tools_available)
    IN  IF nl # None /\ ~CompilesAsPattern(nl)
        THEN Raised(content)
        ELSE IF nl # None
        THEN Decision("delegate", nl, content, "implicit delegation", None)
        ELSE IF FirstOf(content, "nl_final") # 0
        THEN Decision("final", None, content, "language indicating a final response", None)
        ELSE IF tl # None
        THEN Decision("use_tool", None, content, "implicit tool", tl)
        ELSE RoleDefault(content, agent_role, context)

ExplicitTool(content, agent_name, agent_role, context) ==
    LET t == FirstOf(content, "tool")
    IN  IF t # 0
        THEN [Decision("use_tool", None, content, "explicit tool", content[t].name)
                 EXCEPT !.tool_params = ToolParams(content[t])]
        ELSE NaturalLanguage(content, agent_name, agent_role, context)

\* the body of the try block: Strategy 1, then Strategies 2 to 4
ParseStrategies(content, agent_name, agent_role, context) ==
    LET m == FirstOf(content, "action")
        a == content[m]
    IN  IF m # 0 /\ HasDelegateMatch(a)
           /\ ExplicitTarget(a) \in SeqToSet(context.available_agents)
        THEN Decision("delegate", ExplicitTarget(a), ContentToSend(content),
                      "explicit delegation", None)
        ELSE IF m # 0 /\ HasFinalWord(a)
        THEN Decision("final", None, content, "explicit final", None)
        ELSE ExplicitTool(content, agent_name, agent_role, context)

\* a parser that remembers the Decision of the call before
parse_with_memory(content, agent_name, agent_role, context) ==
    IF plog # <<>> /\ plog[Len(plog)].decision.action_type = "final"
    THEN Decision("respond", None, content, "Default response", None)
    ELSE ParseStrategies(content, agent_name, agent_role, context)

\* the try block alone: what it raises leaves the function
parse_without_except(content, agent_name, agent_role, context) ==
    ParseStrategies(content, agent_name, agent_role, context)

parse_agent_decision(content, agent_name, agent_role, context) ==
    LET d == ParseStrategies(content, agent_name, agent_role, context)
    IN  IF d.action_type = "raised"
        THEN Decision("respond", None, content, "Decision parsing failed", None)
        ELSE d

-----------------------------------------------------------------------------
(* Run configurations: template.workflow_type and template.config *)

MaxIterations == 3

DefaultMaxIterations == 5

Roles(order, first, rest) == [n \in SeqToSet(order) |-> IF n = order[1] THEN first ELSE rest]

SupervisorConfig ==
    [wtype |-> "supervisor", itype |-> None, order |-> <<"S", "W1", "W2">>,
     roles |-> Roles(<<"S", "W1", "W2">>, "supervisor", "worker"), hub_agent |-> None]

SequentialConfig ==
    [wtype |-> "swarm", itype |-> "sequential", order |-> <<"a1", "A2">>,
     roles |-> Roles(<<"a1", "A2">>, "agent", "agent"), hub_agent |-> None]

HubConfig ==
    [wtype |-> "swarm", itype |-> "hub_and_spoke", order |-> <<"hub", "p1", "p2", "p3">>,
     roles |-> Roles(<<"hub", "p1", "p2", "p3">>, "hub", "spoke"), hub_agent |-> "hub"]

\* a supervisor workflow in which one worker's name is not a valid regular expression
PunctuatedConfig ==
    [wtype |-> "supervisor", itype |-> None, hub_agent |-> None,
     order |-> <<"S", "W(", "W2">>, roles |-> Roles(<<"S", "W(", "W2">>, "supervisor", "worker")]

RagConfig ==
    [wtype |-> "rag", itype |-> None, order |-> <<"rag_agent">>,
     roles |-> Roles(<<"rag_agent">>, "rag", "rag"), hub_agent |-> None]

\* config.get("workflow_config", {}).get("max_iterations", 5): the hub-and-spoke
\* template keeps the default, the others set 0..MaxIterations
\* writeback: whether the assignment state["current_agent"] = next_agent made inside
\* the conditional-edge function reaches the state the next node receives
Configs ==
    {[base |-> b, max_iterations |-> n, writeback |-> w] :
        b \in {SupervisorConfig, SequentialConfig, RagConfig},
        n \in 0..MaxIterations, w \in BOOLEAN}
    \cup
    {[base |-> HubConfig, max_iterations |-> DefaultMaxIterations, writeback |-> w] :
        w \in BOOLEAN}

AgentNames(c) == SeqToSet(c.base.order)

Query == <<Words("query")>>

\* "execution_graph": {}
EmptyGraph == [k \in {} |-> <<>>]

Msg(role, content) == [role |-> role, content |-> content]

\* the destinations of add_conditional_edges("router", _get_next_agent, {...})
PathMap(c) ==
    IF c.base.wtype = "supervisor"
    THEN {"final"} \cup (AgentNames(c) \ {c.base.order[1]})
    ELSE {"final"} \cup AgentNames(c)

\* create_initial_state: the agent that holds the query and is current_agent
FirstAgent(c) ==
    IF c.base.wtype = "swarm" /\ c.base.itype = "hub_and_spoke"
          /\ c.base.hub_agent \in AgentNames(c)
    THEN c.base.hub_agent
    ELSE c.base.order[1]

create_initial_state(c) ==
    [agents |-> [n \in AgentNames(c) |->
                    [messages |-> IF n = FirstAgent(c) THEN <<Msg("user", Query)>> ELSE <<>>,
                     next_agent |-> None,
                     tools_used |-> <<>>,
                     outputs |-> [final |-> None, error |-> None]]],
     current_agent |-> FirstAgent(c),
     history |-> <<>>,
     final_output |-> None,
     execution_graph |-> EmptyGraph,
     iteration |-> 0]

-----------------------------------------------------------------------------
(* LangGraphWorkflowRunner: the node functions *)

HistoryEntry(agent, action, target) == [agent |-> agent, action |-> action, target |-> target]

\* the context handed to the parser by _process_agent_response
\* ("tools_available" is never set there, so context.get gives [])
ParseContext(c, st) ==
    [workflow_type |-> c.base.wtype,
     available_agents |-> c.base.order,
     agent_roles |-> c.base.roles,
     iteration |-> st.iteration,
     workers |-> SelectSeq(c.base.order, LAMBDA n : c.base.roles[n] = "worker"),
     hub_agent |-> c.base.hub_agent,
     tools_available |-> <<>>]

\* the next_agent an agent's decision leaves in its AgentState
NextAgentOf(decision, agent_name) ==
    CASE decision.action_type = "delegate" -> decision.target
      [] decision.action_type = "use_tool" -> agent_name
      [] decision.action_type = "final" -> "final"
      [] OTHER -> "final"

\* an execution graph that records the target of every decision, None and final included
GraphWithEveryTarget(graph, agent_name, target) ==
    LET old == IF agent_name \in DOMAIN graph THEN graph[agent_name] ELSE <<>>
    IN  [k \in DOMAIN graph \cup {agent_name} |->
            IF k = agent_name THEN Append(old, target) ELSE graph[k]]

\* execution_graph[agent_name] exists after every reply; a target other than final is appended
GraphAfter(graph, agent_name, target) ==
    LET old == IF agent_name \in DOMAIN graph THEN graph[agent_name] ELSE <<>>
        new == IF target # None /\ target # "final" THEN Append(old, target) ELSE old
    IN  [k \in DOMAIN graph \cup {agent_name} |-> IF k = agent_name THEN new ELSE graph[k]]

process_agent_response(c, st, agent_name, content) ==
    LET decision == parse_agent_decision(content, agent_name, c.base.roles[agent_name],
                                         ParseContext(c, st))
        me == st.agents[agent_name]
        a1 == [st.agents EXCEPT ![agent_name] =
                  [me EXCEPT !.messages = Append(me.messages, Msg("assistant", content)),
                             !.outputs = [me.outputs EXCEPT !.final = content]]]
        a2 == IF decision.action_type = "delegate"
              THEN LET d1 == [a1 EXCEPT ![agent_name].next_agent = decision.target]
                   IN  IF decision.target \in DOMAIN d1 /\ decision.content # <<>>
                       THEN [d1 EXCEPT ![decision.target].messages =
                                Append(@, Msg("user", decision.content))]
                       ELSE d1
              ELSE IF decision.action_type = "use_tool"
              THEN [a1 EXCEPT ![agent_name].tools_used =
                                  IF decision.tool_name \in SeqToSet(@) THEN @
                                  ELSE Append(@, decision.tool_name),
                              ![agent_name].next_agent = agent_name]
              ELSE [a1 EXCEPT ![agent_name].next_agent = NextAgentOf(decision, agent_name)]
    IN  [st EXCEPT !.agents = a2,
                   !.history = Append(st.history,
                       HistoryEntry(agent_name, decision.action_type, decision.target)),
                   !.execution_graph = GraphAfter(st.execution_graph, agent_name,
                                                  decision.target)]

\* an except branch that starts the history afresh
agent_error_resets(st, agent_name) ==
    [st EXCEPT !.agents[agent_name].outputs =
                   [final |-> <<Words("Error")>>, error |-> "error"],
               !.history = <<HistoryEntry(agent_name, "error", None)>>]

\* the except branch of agent_function: outputs replaced, history extended, next_agent kept
agent_error(st, agent_name) ==
    [st EXCEPT !.agents[agent_name].outputs =
                   [final |-> <<Words("Error")>>, error |-> "error"],
               !.history = Append(st.history, HistoryEntry(agent_name, "error", None))]

\* the cap tested one pass late
CapReachedLate(c, iteration) == iteration > c.max_iterations + 1

\* the iteration above which the router forces final
CapReached(c, iteration) == iteration > c.max_iterations

\* a router pass that counts itself twice
IterationSkipped(st) == st.iteration + 2

\* new_state["iteration"] = state.get("iteration", 0) + 1
IterationAfter(st) == st.iteration + 1

router_function(c, st) ==
    LET current_agent == IF st.current_agent = None THEN c.base.order[1]
                         ELSE st.current_agent
        next_agent == st.agents[current_agent].next_agent
        iteration == IterationAfter(st)
    IN  IF CapReached(c, iteration)
        THEN [st EXCEPT !.iteration = iteration,
                        !.agents[current_agent].next_agent = "final",
                        !.history = Append(st.history,
                            HistoryEntry(current_agent, "max_iterations_reached", "final"))]
        ELSE [st EXCEPT !.iteration = iteration,
                        !.history = Append(st.history,
                            HistoryEntry(current_agent, "route", next_agent))]

\* what _get_next_agent returns to the conditional edge
get_next_agent(c, st) ==
    LET next_agent == st.agents[st.current_agent].next_agent
    IN  IF st.current_agent = None THEN c.base.order[1]
        ELSE IF next_agent # None /\ next_agent # "final" /\ next_agent \in DOMAIN st.agents
        THEN next_agent
        ELSE "final"

\* the state after the conditional edge ran: state["current_agent"] = next_agent
AfterBranch(c, st) ==
    IF c.writeback /\ st.current_agent # None /\ get_next_agent(c, st) # "final"
    THEN [st EXCEPT !.current_agent = get_next_agent(c, st)]
    ELSE st

Label(name) == Tok("label", "", name)

FinalOf(st, n) == IF st.agents[n].outputs.final = None THEN <<>> ELSE st.agents[n].outputs.final

RECURSIVE JoinParts(_, _, _)
JoinParts(st, order, i) ==
    IF i > Len(order) THEN <<>>
    ELSE (IF FinalOf(st, order[i]) # <<>>
          THEN <<Label(order[i])>> \o FinalOf(st, order[i]) ELSE <<>>)
         \o JoinParts(st, order, i + 1)

NoOutput == <<Words("No output was generated by any agent.")>>

\* the answer the topology's rule selects (None when the rule assigns nothing)
TopologyOutput(c, st) ==
    LET sups == {i \in DOMAIN c.base.order : c.base.roles[c.base.order[i]] = "supervisor"}
        seen == SelectSeq(st.history, LAMBDA e : e.agent # None)
    IN  CASE c.base.wtype = "supervisor" ->
                 IF sups = {} THEN None ELSE FinalOf(st, c.base.order[Min(sups)])
          [] c.base.wtype = "swarm" /\ c.base.itype = "hub_and_spoke" ->
                 IF c.base.hub_agent \in DOMAIN st.agents
                 THEN FinalOf(st, c.base.hub_agent) ELSE None
          [] c.base.wtype = "swarm" ->
                 IF seen = <<>> THEN None ELSE FinalOf(st, seen[Len(seen)].agent)
          [] OTHER -> FinalOf(st, "rag_agent")

final_function(c, st) ==
    LET picked == TopologyOutput(c, st)
        parts == JoinParts(st, c.base.order, 1)
        out == IF picked # None /\ picked # <<>> THEN picked
               ELSE IF parts # <<>> THEN parts ELSE NoOutput
    IN  [st EXCEPT !.final_output = out,
                   !.history = Append(st.history, HistoryEntry(None, "final_output", None))]

\* _process_final_state, with the engine's success flag
process_final_state(c, st) ==
    [success |-> TRUE,
     error |-> None,
     final_output |-> st.final_output,
     outputs |-> [n \in DOMAIN st.agents |-> FinalOf(st, n)],
     execution_graph |-> st.execution_graph]

\* The state object a node function was given, as it is once the function has returned.
\* dict(state) copies one level; every dict or list reached through the copy and not
\* itself copied is the object the given state holds.

\* router_function: agents = new_state["agents"] is the given state's own dict, so at the
\* cap the entry of current_agent is replaced in the given state too
GivenAfterRouter(c, st) ==
    LET returned == router_function(c, st)
    IN  [st EXCEPT !.agents = returned.agents]

\* _process_agent_response: the agents dict and the speaker's AgentState are copied, so
\* next_agent is set on the copy; messages, outputs and tools_used of the speaker, the
\* target's AgentState and an existing execution_graph list are shared and written in
\* place; history is rebuilt with +
GivenAfterResponse(c, st, agent_name, content) ==
    LET returned == process_agent_response(c, st, agent_name, content)
    IN  [st EXCEPT !.agents =
                       [returned.agents EXCEPT ![agent_name].next_agent =
                                                   st.agents[agent_name].next_agent],
                   !.execution_graph =
                       IF agent_name \in DOMAIN st.execution_graph
                       THEN returned.execution_graph ELSE st.execution_graph]

\* final_function: only keys of the copy are assigned, history is rebuilt with +
GivenAfterFinal(c, st) == st

\* validate_workflow: the execution_graph lists a configuration may carry; every source and
\* every target is a configured agent. Here each agent is allowed one and the same target.
AllowLists(c) == {[n \in AgentNames(c) |-> <<t>>] : t \in AgentNames(c)}

\* the except branch of AgenticWorkflowEngine.execute_workflow
FailureResult ==
    [success |-> FALSE, error |-> "error", final_output |-> None,
     outputs |-> None, execution_graph |-> None]

-----------------------------------------------------------------------------
(* The run: background task, graph nodes, cancel request *)

\* the replies the Model Invoker gives in a run: an explicit delegation (a spoke's
\* to its hub, any other agent's to any other agent), an explicit final tag, a tool
\* request, plain text, or an empty reply
RunReplies(c, agent_name) ==
    {<<ActionTag("delegate to", t)>> :
        t \in IF c.base.roles[agent_name] = "spoke" THEN {c.base.hub_agent}
              ELSE AgentNames(c) \ {agent_name}}
    \cup {<<ActionTag("final", "")>>, <<ToolTag("search")>>, <<Words("text")>>, <<>>}

NoParse == [content |-> <<>>, agent_name |-> None, agent_role |-> None, context |-> None]

NoHybrid == [pc |-> "off"]

\* pout before parse_agent_decision has returned
NoDecision == Decision(None, None, <<>>, None, None)

\* result before execute_workflow has returned
NoResult ==
    [success |-> FALSE, error |-> None, final_output |-> None,
     outputs |-> None, execution_graph |-> None]

RunInit ==
    /\ cfg \in Configs
    /\ state = create_initial_state(cfg)
    /\ pc = "idle"
    /\ status = "pending"
    /\ invocations = <<>>
    /\ result = NoResult

Init ==
    /\ RunInit
    /\ pin = NoParse
    /\ pout = NoDecision
    /\ hyb = NoHybrid
    /\ plog = <<>>
    /\ MoreIdle
    /\ ExtIdle
    /\ LibIdle

\* execute_agentic_workflow_background up to graph.ainvoke: the record is marked running
\* and the graph starts at the node of the initial current_agent
BackgroundStart ==
    /\ pc = "idle"
    /\ status' = "running"
    /\ pc' = state.current_agent
    /\ UNCHANGED <<cfg, state, invocations, result, pin, pout, hyb, plog>>
    /\ UNCHANGED <<libVars, extVars, moreVars>>

\* agent_function: "Skip if no messages to process"
AgentSkip ==
    /\ pc \in AgentNames(cfg)
    /\ state.agents[pc].messages = <<>>
    /\ pc' = "router"
    /\ UNCHANGED <<cfg, state, status, invocations, result, pin, pout, hyb, plog>>
    /\ UNCHANGED <<libVars, extVars, moreVars>>

\* agent_function: the Model Invoker answers and _process_agent_response runs
AgentReply ==
    /\ pc \in AgentNames(cfg)
    /\ state.agents[pc].messages # <<>>
    /\ \E content \in RunReplies(cfg, pc) :
          state' = process_agent_response(cfg, state, pc, content)
    /\ invocations' = Append(invocations, pc)
    /\ pc' = "router"
    /\ UNCHANGED <<cfg, status, result, pin, pout, hyb, plog>>
    /\ UNCHANGED <<libVars, extVars, moreVars>>

\* agent_function: the Model Invoker raises
AgentRaise ==
    /\ pc \in AgentNames(cfg)
    /\ state.agents[pc].messages # <<>>
    /\ state' = agent_error(state, pc)
    /\ invocations' = Append(invocations, pc)
    /\ pc' = "router"
    /\ UNCHANGED <<cfg, status, result, pin, pout, hyb, plog>>
    /\ UNCHANGED <<libVars, extVars, moreVars>>

\* router_function followed by the conditional edge _get_next_agent; a return value
\* that is no key of the edge's path map makes the graph raise
Router ==
    /\ pc = "router"
    /\ LET routed == router_function(cfg, state)
           dest == get_next_agent(cfg, routed)
       IN  /\ state' = AfterBranch(cfg, routed)
           /\ pc' = IF dest \in PathMap(cfg) THEN dest ELSE "raised"
    /\ UNCHANGED <<cfg, status, invocations, result, pin, pout, hyb, plog>>
    /\ UNCHANGED <<libVars, extVars, moreVars>>

\* final_function, then the edge to END
Final ==
    /\ pc = "final"
    /\ state' = final_function(cfg, state)
    /\ pc' = "END"
    /\ UNCHANGED <<cfg, status, invocations, result, pin, pout, hyb, plog>>
    /\ UNCHANGED <<libVars, extVars, moreVars>>

\* execute returns _process_final_state; the background task stores the result
FinishCompleted ==
    /\ pc = "END"
    /\ result' = process_final_state(cfg, state)
    /\ status' = "completed"
    /\ pc' = "returned"
    /\ UNCHANGED <<cfg, state, invocations, pin, pout, hyb, plog>>
    /\ UNCHANGED <<libVars, extVars, moreVars>>

\* execute re-raises, execute_workflow catches and returns the failure result
FinishFailed ==
    /\ pc = "raised"
    /\ result' = FailureResult
    /\ status' = "failed"
    /\ pc' = "returned"
    /\ UNCHANGED <<cfg, state, invocations, pin, pout, hyb, plog>>
    /\ UNCHANGED <<libVars, extVars, moreVars>>

\* cancel_agentic_execution
Cancel ==
    /\ status \in {"running", "pending"}
    /\ status' = "canceled"
    /\ UNCHANGED <<cfg, state, pc, invocations, result, pin, pout, hyb, plog>>
    /\ UNCHANGED <<libVars, extVars, moreVars>>

Next ==
    \/ BackgroundStart
    \/ AgentSkip
    \/ AgentReply
    \/ AgentRaise
    \/ Router
    \/ Final
    \/ FinishCompleted
    \/ FinishFailed
    \/ Cancel

Spec == Init /\ [][Next]_vars

-----------------------------------------------------------------------------
(* The parser on its own: every bounded reply text in every context *)

MaxTokens == 2

\* the names a reply can mention: the configured agents that are words, and one unknown name
Mentionable(b) == {n \in SeqToSet(b.order) : CompilesAsPattern(n)} \cup {"ghost"}

Alphabet(b) ==
    {ActionTag(v, n) : v \in {"delegate to", "delegate"}, n \in Mentionable(b)}
    \cup {ActionTag("final", ""), ActionTag("other", "")}
    \cup {NlDelegate(n) : n \in Mentionable(b)}
    \cup {ContentTag("task"), ToolTag("search"), NlFinal, NlTool("search"), Words("text")}
    \cup {ToolTagWith("search", "json"), ToolTagWith("search", "text")}

\* the reply texts of at most n tokens
TextsUpTo(b, n) == UNION {[1..k -> Alphabet(b)] : k \in 0..n}

Texts(b) == TextsUpTo(b, MaxTokens)

\* the contexts the runner builds for configuration b
ContextsOf(b) ==
    {[workflow_type |-> b.wtype, available_agents |-> b.order,
      agent_roles |-> b.roles, iteration |-> i,
      workers |-> SelectSeq(b.order, LAMBDA n : b.roles[n] = "worker"),
      hub_agent |-> b.hub_agent, tools_available |-> tl] :
        i \in {0, 1}, tl \in {<<>>, <<"search">>}}

\* a context with no keys: every context.get falls back to its default
EmptyContext ==
    [workflow_type |-> "", available_agents |-> <<>>, agent_roles |-> <<>>, iteration |-> 0,
     workers |-> <<>>, hub_agent |-> None, tools_available |-> <<>>]

\* the configurations the harness draws speakers and contexts from
ParserConfigs == {SupervisorConfig, SequentialConfig, PunctuatedConfig}

\* pin is a call on a text of at most n tokens
IsParserInput(input, n) ==
    \E b \in ParserConfigs :
        \E t \in TextsUpTo(b, n), a \in SeqToSet(b.order), c \in ContextsOf(b) \cup {EmptyContext} :
            input = [content |-> t, agent_name |-> a, agent_role |-> b.roles[a], context |-> c]

IdleConfig == [base |-> RagConfig, max_iterations |-> 0, writeback |-> TRUE]

RunIdle ==
    /\ cfg = IdleConfig
    /\ state = create_initial_state(cfg)
    /\ pc = "off"
    /\ status = "pending"
    /\ invocations = <<>>
    /\ result = NoResult

MaxCalls == 3

CallTokens == 1

\* the arguments of an unrelated call made between two calls on pin
OtherInput ==
    [content |-> <<ActionTag("final", "")>>, agent_name |-> "S", agent_role |-> "supervisor",
     context |-> [workflow_type |-> "supervisor", available_agents |-> SupervisorConfig.order,
                  agent_roles |-> SupervisorConfig.roles, iteration |-> 1,
                  workers |-> <<"W1", "W2">>, hub_agent |-> None, tools_available |-> <<>>]]

\* one call of the parser, as the harness logs it
Called(input) ==
    [input |-> input,
     decision |-> parse_agent_decision(input.content, input.agent_name, input.agent_role,
                                       input.context)]

ParserInit ==
    /\ RunIdle
    /\ IsParserInput(pin, MaxTokens)
    /\ pout = NoDecision
    /\ hyb = NoHybrid
    /\ plog = <<>>
    /\ MoreIdle
    /\ ExtIdle
    /\ LibIdle

\* the first call, on pin
Parse ==
    /\ pout.action_type = None
    /\ pout' = Called(pin).decision
    /\ plog' = Append(plog, Called(pin))
    /\ UNCHANGED <<cfg, state, pc, status, invocations, result, pin, hyb>>
    /\ UNCHANGED <<libVars, extVars, moreVars>>

\* a later call with the same arguments
ParseAgain ==
    /\ pout.action_type # None
    /\ Len(plog) < MaxCalls
    /\ plog' = Append(plog, Called(pin))
    /\ UNCHANGED <<cfg, state, pc, status, invocations, result, pin, pout, hyb>>
    /\ UNCHANGED <<libVars, extVars, moreVars>>

\* a later call with other arguments
ParseOther ==
    /\ pout.action_type # None
    /\ Len(plog) < MaxCalls
    /\ pin # OtherInput
    /\ plog' = Append(plog, Called(OtherInput))
    /\ UNCHANGED <<cfg, state, pc, status, invocations, result, pin, pout, hyb>>
    /\ UNCHANGED <<libVars, extVars, moreVars>>

ParserNext == Parse

\* repeated calls, on texts of at most CallTokens tokens
ParserCallsInit ==
    /\ RunIdle
    /\ IsParserInput(pin, CallTokens)
    /\ pout = NoDecision
    /\ hyb = NoHybrid
    /\ plog = <<>>
    /\ MoreIdle
    /\ ExtIdle
    /\ LibIdle

ParserCallsNext ==
    \/ Parse
    \/ ParseAgain
    \/ ParseOther

SpecParserCalls == ParserCallsInit /\ [][ParserCallsNext]_vars

SpecParser == ParserInit /\ [][ParserNext]_vars

-----------------------------------------------------------------------------
(* HybridWorkflowEngine: execute_workflow with sequential coordination *)

MaxTeams == 2

MaxWorkers == 2

MaxPeers == 1

\* a team of config["teams"]: whether it has a supervisor, and how many workers
TeamConfigs == [supervisor : BOOLEAN, workers : 0..MaxWorkers]

HybridInputs ==
    [teams : UNION {[1..n -> TeamConfigs] : n \in 0..MaxTeams},
     peers : 0..MaxPeers,
     query : BOOLEAN]

HybridStart(input) ==
    [pc |-> "validate", teams |-> input.teams, peers |-> input.peers, query |-> input.query,
     ti |-> 0, wi |-> 0, sel |-> 0, pi |-> 0, calls |-> 0, error |-> "none",
     team_outputs |-> {}, peer_outputs |-> {}, execution_graph |-> {},
     result |-> [success |-> FALSE, error |-> FALSE, has_outputs |-> FALSE, outputs |-> {},
                 has_graph |-> FALSE, execution_graph |-> {}]]

HybridInit ==
    /\ RunIdle
    /\ pin = NoParse
    /\ pout = NoDecision
    /\ plog = <<>>
    /\ MoreIdle
    /\ ExtIdle
    /\ LibIdle
    /\ hyb \in {HybridStart(input) : input \in HybridInputs}

\* where the sequential plan goes after team ti and peer pi are done
AfterUnit(h) ==
    IF h.ti < Len(h.teams) THEN [h EXCEPT !.pc = "team", !.ti = h.ti + 1, !.wi = 0, !.sel = 0]
    ELSE IF h.pi < h.peers THEN [h EXCEPT !.pc = "peer", !.pi = h.pi + 1]
    ELSE [h EXCEPT !.pc = "final"]

\* _execute_hybrid_workflow, "Validate configuration" and the query check
validate_hybrid(h) ==
    IF (h.teams = <<>> /\ h.peers = 0) \/ ~h.query
    THEN [h EXCEPT !.pc = "raised", !.error = "validation"]
    ELSE AfterUnit(h)

\* _process_team, "Validate team structure"
validate_team(h) ==
    IF ~h.teams[h.ti].supervisor \/ h.teams[h.ti].workers = 0
    THEN [h EXCEPT !.pc = "raised", !.error = "validation"]
    ELSE [h EXCEPT !.pc = "supervisor"]

\* the step after a Model Invoker call returned; selected is the number of workers
\* _select_workers_from_supervisor_response picked (all of them when it picks none)
after_call(h, selected) ==
    CASE h.pc = "supervisor" -> [h EXCEPT !.pc = "worker", !.sel = selected, !.wi = 0]
      [] h.pc = "worker" ->
             [h EXCEPT !.wi = h.wi + 1,
                       !.execution_graph = h.execution_graph \cup {<<h.ti, h.wi + 1>>},
                       !.pc = IF h.wi + 1 = h.sel THEN "synthesis" ELSE "worker"]
      [] h.pc = "synthesis" ->
             AfterUnit([h EXCEPT !.team_outputs = h.team_outputs \cup {h.ti}])
      [] h.pc = "peer" ->
             AfterUnit([h EXCEPT !.peer_outputs = h.peer_outputs \cup {h.pi}])
      [] OTHER -> [h EXCEPT !.pc = "done"]

HybridCalling == hyb.pc \in {"supervisor", "worker", "synthesis", "peer", "final"}

\* the result of a run that returned
hybrid_success(h) ==
    [success |-> TRUE, error |-> FALSE, has_outputs |-> TRUE,
     outputs |-> {<<"team", t>> : t \in h.team_outputs}
                 \cup {<<"agent", a>> : a \in h.peer_outputs},
     has_graph |-> TRUE, execution_graph |-> h.execution_graph]

\* the except branch of execute_workflow: success, error and execution_time only
hybrid_failure(h) ==
    [success |-> FALSE, error |-> TRUE, has_outputs |-> FALSE, outputs |-> {},
     has_graph |-> FALSE, execution_graph |-> {}]

HybridValidate ==
    /\ hyb.pc = "validate"
    /\ hyb' = validate_hybrid(hyb)
    /\ UNCHANGED <<cfg, state, pc, status, invocations, result, pin, pout, plog>>
    /\ UNCHANGED <<libVars, extVars, moreVars>>

HybridTeam ==
    /\ hyb.pc = "team"
    /\ hyb' = validate_team(hyb)
    /\ UNCHANGED <<cfg, state, pc, status, invocations, result, pin, pout, plog>>
    /\ UNCHANGED <<libVars, extVars, moreVars>>

HybridCallReturns ==
    /\ HybridCalling
    /\ \E selected \in 1..MaxWorkers :
          /\ hyb.pc = "supervisor" => selected <= hyb.teams[hyb.ti].workers
          /\ hyb.pc # "supervisor" => selected = 1
          /\ hyb' = after_call([hyb EXCEPT !.calls = hyb.calls + 1], selected)
    /\ UNCHANGED <<cfg, state, pc, status, invocations, result, pin, pout, plog>>
    /\ UNCHANGED <<libVars, extVars, moreVars>>

HybridCallRaises ==
    /\ HybridCalling
    /\ hyb' = [hyb EXCEPT !.calls = hyb.calls + 1, !.pc = "raised", !.error = "model"]
    /\ UNCHANGED <<cfg, state, pc, status, invocations, result, pin, pout, plog>>
    /\ UNCHANGED <<libVars, extVars, moreVars>>

HybridReturn ==
    /\ hyb.pc = "done"
    /\ hyb' = [hyb EXCEPT !.pc = "returned", !.result = hybrid_success(hyb)]
    /\ UNCHANGED <<cfg, state, pc, status, invocations, result, pin, pout, plog>>
    /\ UNCHANGED <<libVars, extVars, moreVars>>

HybridCatch ==
    /\ hyb.pc = "raised"
    /\ hyb' = [hyb EXCEPT !.pc = "returned", !.result = hybrid_failure(hyb)]
    /\ UNCHANGED <<cfg, state, pc, status, invocations, result, pin, pout, plog>>
    /\ UNCHANGED <<libVars, extVars, moreVars>>

HybridNext ==
    \/ HybridValidate
    \/ HybridTeam
    \/ HybridCallReturns
    \/ HybridCallRaises
    \/ HybridReturn
    \/ HybridCatch

SpecHybrid == HybridInit /\ [][HybridNext]_vars

-----------------------------------------------------------------------------
(* ToolRegistry.execute_tool *)

\* a parameter definition as register_tool stores it; enum = {} when the key is absent
ParamDef(name, type, required, enum) ==
    [name |-> name, type |-> type, required |-> required, enum |-> enum]

\* tool_def["parameters"] of the one registered tool, in declaration order
ToolParameters ==
    <<ParamDef("query", "string", TRUE, {}),
      ParamDef("n", "integer", FALSE, {}),
      ParamDef("mode", "string", FALSE, {"a", "b"}),
      ParamDef("items", "array", FALSE, {})>>

\* self.tools
RegisteredTools == {"t"}

\* the values a caller can pass: a word, a digit string, an integer, the float
\* infinity (json.loads of 1e999), a list, and the strings "a" and "z"
ParamValues == {"text", "digits", "int", "inf", "list", "a", "z"}

\* the conversion of the "Validate parameter type" block: "ok", "error" (an entry in
\* param_errors) or "raise" (an exception the block does not catch)
Convert(type, v) ==
    CASE type = "string" -> "ok"
      [] type = "integer" ->
             IF v \in {"int", "digits"} THEN "ok"
             ELSE IF v = "inf" THEN "raise"
             ELSE "error"
      [] type = "array" -> IF v = "list" THEN "ok" ELSE "error"
      [] OTHER -> "ok"

\* the messages the loop appends to param_errors for one parameter
ParamErrors(def, parameters) ==
    IF def.name \notin DOMAIN parameters
    THEN IF def.required THEN <<[kind |-> "missing", name |-> def.name]>> ELSE <<>>
    ELSE (IF Convert(def.type, parameters[def.name]) = "error"
          THEN <<[kind |-> "type", name |-> def.name]>> ELSE <<>>)
         \o (IF def.enum # {} /\ parameters[def.name] \notin def.enum
             THEN <<[kind |-> "enum", name |-> def.name]>> ELSE <<>>)

\* the conversion of this parameter raises
ParamRaises(def, parameters) ==
    def.name \in DOMAIN parameters /\ Convert(def.type, parameters[def.name]) = "raise"

RECURSIVE ValidateFrom(_, _)
\* the validation loop from parameter i on: the errors collected, or "raise"
ValidateFrom(i, parameters) ==
    IF i > Len(ToolParameters) THEN [raised |-> FALSE, errors |-> <<>>]
    ELSE IF ParamRaises(ToolParameters[i], parameters)
    THEN [raised |-> TRUE, errors |-> <<>>]
    ELSE LET rest == ValidateFrom(i + 1, parameters)
         IN  [raised |-> rest.raised,
              errors |-> ParamErrors(ToolParameters[i], parameters) \o rest.errors]

\* the module's globals hold the name datetime (the module does not import it)
DatetimeDefined == FALSE

ToolResult(success, error, named, has_result, has_time) ==
    [success |-> success, error |-> error, named |-> named,
     has_result |-> has_result, has_time |-> has_time]

NoToolResult == ToolResult(FALSE, "none", {}, FALSE, FALSE)

\* the try block: start_time = datetime.now(), the handler call, the envelope
\* handler is what the handler does when it is called: "value", "dict" or "raise"
TryHandler(t) ==
    IF ~DatetimeDefined
    THEN [t EXCEPT !.pc = "returned",
                   !.result = ToolResult(FALSE, "execution", {}, FALSE, FALSE)]
    ELSE IF t.handler = "raise"
    THEN [t EXCEPT !.pc = "returned", !.handler_calls = t.handler_calls + 1,
                   !.result = ToolResult(FALSE, "execution", {}, FALSE, FALSE)]
    ELSE [t EXCEPT !.pc = "returned", !.handler_calls = t.handler_calls + 1,
                   !.result = ToolResult(TRUE, "none", {}, TRUE, TRUE)]

execute_tool(t) ==
    IF t.name \notin RegisteredTools
    THEN [t EXCEPT !.pc = "returned",
                   !.result = ToolResult(FALSE, "not_found", {}, FALSE, FALSE)]
    ELSE LET v == ValidateFrom(1, t.params)
         IN  IF v.raised THEN [t EXCEPT !.pc = "raised"]
             ELSE IF v.errors # <<>>
             THEN [t EXCEPT !.pc = "returned",
                            !.result = ToolResult(FALSE, "validation",
                                                  {v.errors[i].name : i \in DOMAIN v.errors},
                                                  FALSE, FALSE)]
             ELSE TryHandler(t)

\* the parameter maps a caller can pass to the registered tool
ToolParamMaps ==
    UNION {[D -> ParamValues] : D \in SUBSET {ToolParameters[i].name : i \in DOMAIN ToolParameters}}

ToolInit ==
    /\ RunIdle
    /\ pin = NoParse
    /\ pout = NoDecision
    /\ hyb = NoHybrid
    /\ plog = <<>>
    /\ MoreIdle
    /\ ExtIdle
    /\ \E name \in RegisteredTools \cup {"unknown"}, params \in ToolParamMaps,
          handler \in {"value", "dict", "raise"} :
          tool = [pc |-> "called", name |-> name, params |-> params, handler |-> handler,
                  handler_calls |-> 0, result |-> NoToolResult]
    /\ cache = Off
    /\ bucket = Off
    /\ retry = Off
    /\ ckpt = Off
    /\ dfs = Off

ExecuteTool ==
    /\ tool.pc = "called"
    /\ tool' = execute_tool(tool)
    /\ UNCHANGED <<coreVars, cache, bucket, retry, ckpt, dfs, extVars, moreVars>>

ToolNext == ExecuteTool

SpecTool == ToolInit /\ [][ToolNext]_vars

-----------------------------------------------------------------------------
(* Properties of the tool registry *)

\* the declared parameters of the call that are missing though required, cannot be
\* converted to their declared type, or lie outside their enum
OffendingParams ==
    {ToolParameters[i].name : i \in
        {i \in DOMAIN ToolParameters :
            LET def == ToolParameters[i]
            IN  IF def.name \notin DOMAIN tool.params THEN def.required
                ELSE \/ Convert(def.type, tool.params[def.name]) # "ok"
                     \/ def.enum # {} /\ tool.params[def.name] \notin def.enum}}

ToolCallEnded == tool.pc \in {"returned", "raised"}

\* C13: a call on a registered tool with k >= 1 offending parameters returns one
\* success=false result whose error names each of them, without invoking the handler.
C13_ValidationAggregates ==
    (ToolCallEnded /\ tool.name \in RegisteredTools /\ OffendingParams # {})
        => /\ tool.pc = "returned"
           /\ ~tool.result.success
           /\ tool.result.error = "validation"
           /\ tool.result.named = OffendingParams
           /\ tool.handler_calls = 0

\* C14: a call on a registered tool whose parameters pass validation invokes the
\* handler exactly once, and when the handler returns normally the result has
\* success=true, the handler's result and an execution_time.
C14_SuccessEnvelope ==
    (ToolCallEnded /\ tool.name \in RegisteredTools /\ OffendingParams = {})
        => /\ tool.handler_calls = 1
           /\ tool.handler # "raise"
                => /\ tool.pc = "returned"
                   /\ tool.result.success
                   /\ tool.result.has_result
                   /\ tool.result.has_time

\* C15: execute_tool always returns: an unknown tool, a validation failure and a
\* handler exception each come back as a success=false result with an error.
C15_ToolNeverRaises ==
    /\ tool.pc # "raised"
    /\ (tool.pc = "returned"
          /\ (tool.name \notin RegisteredTools \/ OffendingParams # {} \/ tool.handler = "raise"))
          => (~tool.result.success /\ tool.result.error # "none")

-----------------------------------------------------------------------------
(* LRUCache and cached_llm_call *)

\* _llm_response_cache = LRUCache(max_size=1000, ttl=3600)
CacheMaxSize == 1000
CacheTtl == 3600

\* the clock advances in quarters of the cache's ttl, at most MaxTicks times
MaxTicks == 6
MaxCacheCalls == 3
Tick == CacheTtl \div 4

\* the ttl arguments given to the decorator
DecoratorTtls == {CacheTtl \div 2, CacheTtl, 2 * CacheTtl}

\* the argument tuples the wrapped function is called with
CacheArgs == {"a", "b"}

\* md5 of the function name and the JSON of the arguments
\* (one wrapped function; hash collisions are left out)
create_cache_key(func_name, args) == <<func_name, args>>

\* LRUCache.get: the cache after the lookup and the value returned; found is
\* FALSE where get returns None (the wrapped function's own results are not None)
LRUGet(c, key, now) ==
    IF key \notin DOMAIN c.entries
    THEN [cache |-> c, found |-> FALSE, value |-> 0]
    ELSE IF now > c.entries[key].expiry
    THEN [cache |-> [entries |-> [k \in DOMAIN c.entries \ {key} |-> c.entries[k]],
                     access_times |-> [k \in DOMAIN c.access_times \ {key} |-> c.access_times[k]]],
          found |-> FALSE, value |-> 0]
    ELSE [cache |-> [c EXCEPT !.access_times[key] = now],
          found |-> TRUE, value |-> c.entries[key].value]

\* LRUCache._evict_lru
EvictLru(c) ==
    IF DOMAIN c.access_times = {} THEN c
    ELSE LET oldest_key == CHOOSE k \in DOMAIN c.access_times :
                               \A j \in DOMAIN c.access_times : c.access_times[k] <= c.access_times[j]
         IN  [entries |-> [k \in DOMAIN c.entries \ {oldest_key} |-> c.entries[k]],
              access_times |-> [k \in DOMAIN c.access_times \ {oldest_key} |-> c.access_times[k]]]

\* LRUCache.put: the expiry is counted from the cache's own ttl
LRUPut(c, key, value, now) ==
    LET room == IF Cardinality(DOMAIN c.entries) >= CacheMaxSize /\ key \notin DOMAIN c.entries
                THEN EvictLru(c) ELSE c
    IN  [entries |-> [k \in DOMAIN room.entries \cup {key} |->
                         IF k = key THEN [value |-> value, expiry |-> now + CacheTtl]
                         ELSE room.entries[k]],
         access_times |-> [k \in DOMAIN room.access_times \cup {key} |->
                              IF k = key THEN now ELSE room.access_times[k]]]

EmptyCache == [entries |-> <<>>, access_times |-> <<>>]

\* one finished call of the wrapper
CallRecord(args, start, end, value, invoked) ==
    [args |-> args, start |-> start, end |-> end, value |-> value, invoked |-> invoked]

CacheInit ==
    /\ RunIdle
    /\ pin = NoParse
    /\ pout = NoDecision
    /\ hyb = NoHybrid
    /\ plog = <<>>
    /\ MoreIdle
    /\ ExtIdle
    /\ tool = Off
    /\ \E ttl \in DecoratorTtls :
          cache = [pc |-> "idle", ttl |-> ttl, now |-> 0, store |-> EmptyCache,
                   invocations |-> 0, calls |-> <<>>, args |-> None, start |-> 0]
    /\ bucket = Off
    /\ retry = Off
    /\ ckpt = Off
    /\ dfs = Off

\* wrapper up to "await func": the lookup, and the return on a hit
CacheCall ==
    /\ cache.pc = "idle"
    /\ Len(cache.calls) < MaxCacheCalls
    /\ \E args \in CacheArgs :
          LET got == LRUGet(cache.store, create_cache_key("func", args), cache.now)
          IN  IF got.found
              THEN cache' = [cache EXCEPT
                      !.store = got.cache,
                      !.calls = Append(cache.calls,
                                       CallRecord(args, cache.now, cache.now, got.value, FALSE))]
              ELSE cache' = [cache EXCEPT !.store = got.cache, !.pc = "awaiting",
                                          !.args = args, !.start = cache.now]
    /\ UNCHANGED <<coreVars, tool, bucket, retry, ckpt, dfs, extVars, moreVars>>

\* the wrapped function returns its result (numbered by invocation); the wrapper
\* stores it and returns it
CacheFuncReturns ==
    /\ cache.pc = "awaiting"
    /\ LET returned == cache.invocations + 1
       IN  cache' = [cache EXCEPT
               !.pc = "idle",
               !.invocations = returned,
               !.store = LRUPut(cache.store, create_cache_key("func", cache.args), returned, cache.now),
               !.calls = Append(cache.calls,
                                CallRecord(cache.args, cache.start, cache.now, returned, TRUE)),
               !.args = None]
    /\ UNCHANGED <<coreVars, tool, bucket, retry, ckpt, dfs, extVars, moreVars>>

\* time.time() moves on
CacheTick ==
    /\ cache.pc \in {"idle", "awaiting"}
    /\ cache.now + Tick <= MaxTicks * Tick
    /\ cache' = [cache EXCEPT !.now = cache.now + Tick]
    /\ UNCHANGED <<coreVars, tool, bucket, retry, ckpt, dfs, extVars, moreVars>>

CacheNext == CacheCall \/ CacheFuncReturns \/ CacheTick

SpecCache == CacheInit /\ [][CacheNext]_vars

-----------------------------------------------------------------------------
(* Properties of the cache *)

\* the latest call before call j that invoked the wrapped function with the
\* arguments of call j, 0 when there is none
LastStore(j) ==
    LET S == {i \in 1..(j - 1) : cache.calls[i].args = cache.calls[j].args /\ cache.calls[i].invoked}
    IN  IF S = {} THEN 0 ELSE CHOOSE i \in S : \A k \in S : k <= i

\* C16: with cached_llm_call(ttl=T), a call that starts within T seconds of the
\* moment the entry for its arguments was stored returns the stored result without
\* invoking the wrapped function, and a call more than T seconds after it invokes
\* the wrapped function again.
C16_CacheIdempotence ==
    cache.pc # "off" =>
        \A j \in DOMAIN cache.calls :
            LET i == LastStore(j)
            IN  i # 0 =>
                  IF cache.calls[j].start - cache.calls[i].end <= cache.ttl
                  THEN ~cache.calls[j].invoked /\ cache.calls[j].value = cache.calls[i].value
                  ELSE cache.calls[j].invoked

-----------------------------------------------------------------------------
(* cached_llm_call under concurrent runs: two coroutines on one event loop call the same
   wrapped function with the same arguments; "await func" is where the loop may switch *)

CacheRuns == {"run1", "run2"}

SharedArgs == "a"

CacheRunsInit ==
    /\ RunIdle
    /\ pin = NoParse
    /\ pout = NoDecision
    /\ hyb = NoHybrid
    /\ plog = <<>>
    /\ MoreIdle
    /\ ExtIdle
    /\ tool = Off
    /\ cache = [pc |-> [r \in CacheRuns |-> "idle"], now |-> 0, store |-> EmptyCache,
                invocations |-> 0, got |-> [r \in CacheRuns |-> 0],
                overlapped |-> [r \in CacheRuns |-> FALSE]]
    /\ bucket = Off
    /\ retry = Off
    /\ ckpt = Off
    /\ dfs = Off

\* wrapper up to "await func": the lookup, the return on a hit, the start of the wrapped
\* function on a miss; overlapped records that another caller's func was in flight
RunCall(r) ==
    /\ cache.pc[r] = "idle"
    /\ LET got == LRUGet(cache.store, create_cache_key("func", SharedArgs), cache.now)
           inflight == \E o \in CacheRuns \ {r} : cache.pc[o] = "awaiting"
       IN  IF got.found
           THEN cache' = [cache EXCEPT !.store = got.cache, !.pc[r] = "returned",
                                       !.got[r] = got.value, !.overlapped[r] = inflight]
           ELSE cache' = [cache EXCEPT !.store = got.cache, !.pc[r] = "awaiting",
                                       !.overlapped[r] = inflight]
    /\ UNCHANGED <<coreVars, tool, bucket, retry, ckpt, dfs, extVars, moreVars>>

\* the wrapped function returns to run r (results numbered by invocation); the wrapper
\* stores the result and returns it
RunFuncReturns(r) ==
    /\ cache.pc[r] = "awaiting"
    /\ LET returned == cache.invocations + 1
       IN  cache' = [cache EXCEPT
               !.pc[r] = "returned",
               !.invocations = returned,
               !.store = LRUPut(cache.store, create_cache_key("func", SharedArgs),
                                returned, cache.now),
               !.got[r] = returned]
    /\ UNCHANGED <<coreVars, tool, bucket, retry, ckpt, dfs, extVars, moreVars>>

\* time.time() moves on
CacheRunsTick ==
    /\ cache.now + Tick <= MaxTicks * Tick
    /\ cache' = [cache EXCEPT !.now = cache.now + Tick]
    /\ UNCHANGED <<coreVars, tool, bucket, retry, ckpt, dfs, extVars, moreVars>>

CacheRunsNext ==
    \/ \E r \in CacheRuns : RunCall(r)
    \/ \E r \in CacheRuns : RunFuncReturns(r)
    \/ CacheRunsTick

SpecCacheRuns == CacheRunsInit /\ [][CacheRunsNext]_vars

\* C35: when one run calls the wrapped function while the other run's identical call has
\* not returned yet, the wrapped function is invoked once and both runs get the same result.
C35_ConcurrentCallsShare ==
    (/\ \A r \in CacheRuns : cache.pc[r] = "returned"
     /\ \E r \in CacheRuns : cache.overlapped[r])
        => /\ cache.invocations = 1
           /\ \A r, o \in CacheRuns : cache.got[r] = cache.got[o]

-----------------------------------------------------------------------------
(* LRUCache as a class: get, put, update_ttl and clear on a cache of small max_size.
   self.cache is a function from keys to items; self.access_times is kept as the
   sequence of its (key, time) items in dict order, the order min() scans them in. *)

MaxLruSize == 2
MaxLruClock == 2

LruKeys == {"k1", "k2", "k3"}
LruValues == {"v1"}
LruTtls == {1, 2}

Without(f, key) == [k \in DOMAIN f \ {key} |-> f[k]]

With(f, key, item) == [k \in DOMAIN f \cup {key} |-> IF k = key THEN item ELSE f[k]]

\* del self.access_times[key]
TimesWithout(times, key) == SelectSeq(times, LAMBDA e : e.key # key)

\* self.access_times[key] = now: an existing key keeps its place, a new one goes last
TimesWith(times, key, now) ==
    IF \E i \in DOMAIN times : times[i].key = key
    THEN [i \in DOMAIN times |-> IF times[i].key = key THEN [key |-> key, at |-> now]
                                 ELSE times[i]]
    ELSE Append(times, [key |-> key, at |-> now])

\* LRUCache.get: the object after the call and what is returned (found FALSE for None)
get(self, key, now) ==
    IF key \notin DOMAIN self.cache
    THEN [self |-> self, found |-> FALSE, value |-> None]
    ELSE IF now > self.cache[key].expiry
    THEN [self |-> [self EXCEPT !.cache = Without(self.cache, key),
                                !.access_times = TimesWithout(self.access_times, key)],
          found |-> FALSE, value |-> None]
    ELSE [self |-> [self EXCEPT !.access_times = TimesWith(self.access_times, key, now)],
          found |-> TRUE, value |-> self.cache[key].value]

\* an eviction that removes the entry used last
evict_newest(self) ==
    IF self.access_times = <<>> THEN self
    ELSE LET i == CHOOSE i \in DOMAIN self.access_times :
                      \A j \in DOMAIN self.access_times :
                          \/ self.access_times[i].at > self.access_times[j].at
                          \/ self.access_times[i].at = self.access_times[j].at /\ i >= j
             newest_key == self.access_times[i].key
         IN  [self EXCEPT !.cache = Without(self.cache, newest_key),
                          !.access_times = TimesWithout(self.access_times, newest_key)]

\* LRUCache._evict_lru: min() returns the first item with the smallest time
evict_lru(self) ==
    IF self.access_times = <<>> THEN self
    ELSE LET i == CHOOSE i \in DOMAIN self.access_times :
                      \A j \in DOMAIN self.access_times :
                          \/ self.access_times[i].at < self.access_times[j].at
                          \/ self.access_times[i].at = self.access_times[j].at /\ i <= j
             oldest_key == self.access_times[i].key
         IN  [self EXCEPT !.cache = Without(self.cache, oldest_key),
                          !.access_times = TimesWithout(self.access_times, oldest_key)]

\* LRUCache.put
put(self, key, value, now) ==
    LET room == IF Cardinality(DOMAIN self.cache) >= self.max_size
                      /\ key \notin DOMAIN self.cache
                THEN evict_lru(self) ELSE self
    IN  [room EXCEPT !.cache = With(room.cache, key,
                                    [value |-> value, expiry |-> now + self.ttl]),
                     !.access_times = TimesWith(room.access_times, key, now)]

\* LRUCache.clear
clear(self) == [self EXCEPT !.cache = <<>>, !.access_times = <<>>]

\* LRUCache.update_ttl: the object after the call (the expiry is rewritten when the key
\* is present; access_times is left alone)
update_ttl(self, key, ttl, now) ==
    IF key \notin DOMAIN self.cache THEN self
    ELSE [self EXCEPT !.cache[key].expiry = now + ttl]

\* the last operation: its name, its key, whether get found a value
LruOp(op, key, found) == [op |-> op, key |-> key, found |-> found]

\* LRUCache(max_size, ttl); touched notes, for each key, the time of its latest put or
\* get-hit, independently of the object's own index
LruInit ==
    /\ RunIdle
    /\ pin = NoParse
    /\ pout = NoDecision
    /\ hyb = NoHybrid
    /\ plog = <<>>
    /\ ExtIdle
    /\ LibIdle
    /\ dyn = Off
    /\ par = Off
    /\ \E max_size \in 1..MaxLruSize, ttl \in LruTtls :
          lru = [self |-> [max_size |-> max_size, ttl |-> ttl, cache |-> <<>>,
                           access_times |-> <<>>],
                 now |-> 0, touched |-> [k \in LruKeys |-> 0], last |-> LruOp("new", None, FALSE)]

LruGet ==
    \E key \in LruKeys :
        LET got == get(lru.self, key, lru.now)
        IN  lru' = [lru EXCEPT !.self = got.self,
                               !.touched[key] = IF got.found THEN lru.now ELSE @,
                               !.last = LruOp("get", key, got.found)]

LruPut ==
    \E key \in LruKeys, value \in LruValues :
        lru' = [lru EXCEPT !.self = put(lru.self, key, value, lru.now),
                           !.touched[key] = lru.now,
                           !.last = LruOp("put", key, FALSE)]

LruUpdateTtl ==
    \E key \in LruKeys, ttl \in LruTtls :
        lru' = [lru EXCEPT !.self = update_ttl(lru.self, key, ttl, lru.now),
                           !.last = LruOp("update_ttl", key, FALSE)]

LruClear ==
    lru' = [lru EXCEPT !.self = clear(lru.self), !.last = LruOp("clear", None, FALSE)]

\* time.time() moves on
LruTick ==
    /\ lru.now < MaxLruClock
    /\ lru' = [lru EXCEPT !.now = lru.now + 1, !.last = LruOp("tick", None, FALSE)]

LruNext ==
    /\ \/ LruGet
       \/ LruPut
       \/ LruUpdateTtl
       \/ LruClear
       \/ LruTick
    /\ UNCHANGED <<coreVars, libVars, extVars, dyn, par>>

SpecLru == LruInit /\ [][LruNext]_vars

KeysOfTimes(times) == {times[i].key : i \in DOMAIN times}

\* C36: the cache never holds more than max_size entries and its access-time index has
\* exactly the keys of the cache; a put of a new key into a full cache removes exactly one
\* entry, one whose latest put or get-hit is the oldest; get returns a value only while
\* the entry's expiry has not passed.
C36_LruEviction ==
    /\ [](/\ Cardinality(DOMAIN lru.self.cache) <= lru.self.max_size
          /\ KeysOfTimes(lru.self.access_times) = DOMAIN lru.self.cache
          /\ Len(lru.self.access_times) = Cardinality(DOMAIN lru.self.cache))
    /\ [][/\ (/\ lru'.last.op = "put"
              /\ lru'.last.key \notin DOMAIN lru.self.cache
              /\ Cardinality(DOMAIN lru.self.cache) = lru.self.max_size)
                => \E victim \in DOMAIN lru.self.cache :
                      /\ DOMAIN lru'.self.cache
                            = (DOMAIN lru.self.cache \ {victim}) \cup {lru'.last.key}
                      /\ \A k \in DOMAIN lru.self.cache :
                            lru.touched[victim] <= lru.touched[k]
          /\ (lru'.last.op = "get" /\ lru'.last.found)
                => /\ lru'.last.key \in DOMAIN lru.self.cache
                   /\ lru.now <= lru.self.cache[lru'.last.key].expiry]_vars

\* a full cache of two entries in which the older entry was read again, so that the put
\* of a third key removed the other one
C36_Witness ==
    /\ lru.self.max_size = 2
    /\ lru.last.op = "put"
    /\ lru.last.key = "k3"
    /\ DOMAIN lru.self.cache = {"k1", "k3"}
    /\ lru.touched["k1"] > lru.touched["k2"]
    /\ \E i \in DOMAIN lru.self.access_times :
          lru.self.access_times[i].key = "k1" /\ i = 1

-----------------------------------------------------------------------------
(* RequestThrottler *)

MaxBucketTokens == 2
MaxAcquire == 3
MaxBucketClock == 4

\* the coroutines that call acquire
Acquirers == {1, 2}

\* "Update tokens based on time passed": the bucket after a refill at time now
Refill(b) ==
    [b EXCEPT !.tokens = Min({b.max_tokens, b.tokens + (b.now - b.last_update) * b.tokens_per_second}),
              !.last_update = b.now]

\* "Consume tokens" and the release of the lock; held is the balance the
\* acquirer found when it consumed, left the balance it returned with
Consume(b, p, n) ==
    [b EXCEPT !.tokens = b.tokens - n,
              !.lock = 0,
              !.pc[p] = "idle",
              !.last = [n |-> n, held |-> b.tokens, left |-> b.tokens - n, returned |-> TRUE]]

\* RequestThrottler.__init__, for a rate of one token per second
ThrottlerInit ==
    /\ RunIdle
    /\ pin = NoParse
    /\ pout = NoDecision
    /\ hyb = NoHybrid
    /\ plog = <<>>
    /\ MoreIdle
    /\ ExtIdle
    /\ tool = Off
    /\ cache = Off
    /\ \E max_tokens \in 1..MaxBucketTokens :
          bucket = [pc |-> [p \in Acquirers |-> "idle"],
                    max_tokens |-> max_tokens, tokens_per_second |-> 1,
                    tokens |-> max_tokens, last_update |-> 0, now |-> 0,
                    lock |-> 0, n |-> 0, wake |-> 0,
                    last |-> [n |-> 0, held |-> 0, left |-> 0, returned |-> FALSE]]
    /\ retry = Off
    /\ ckpt = Off
    /\ dfs = Off

\* acquire(n) from taking the lock to the sleep, or to the return when the
\* balance suffices
Acquire(p) ==
    /\ bucket # Off
    /\ bucket.pc[p] = "idle"
    /\ bucket.lock = 0
    /\ \E n \in 1..MaxAcquire :
          LET b == Refill(bucket)
          IN  IF b.tokens < n
              THEN bucket' = [b EXCEPT !.lock = p, !.pc[p] = "sleeping", !.n = n,
                                       !.wake = b.now + (n - b.tokens) \div b.tokens_per_second]
              ELSE bucket' = Consume(b, p, n)
    /\ UNCHANGED <<coreVars, tool, cache, retry, ckpt, dfs, extVars, moreVars>>

\* acquire(n) after asyncio.sleep(wait_time): the second refill, the consumption
AcquireWake(p) ==
    /\ bucket # Off
    /\ bucket.pc[p] = "sleeping"
    /\ bucket.now >= bucket.wake
    /\ bucket' = Consume(Refill(bucket), p, bucket.n)
    /\ UNCHANGED <<coreVars, tool, cache, retry, ckpt, dfs, extVars, moreVars>>

\* a second passes
ThrottlerTick ==
    /\ bucket # Off
    /\ bucket.now < MaxBucketClock
    /\ bucket' = [bucket EXCEPT !.now = bucket.now + 1]
    /\ UNCHANGED <<coreVars, tool, cache, retry, ckpt, dfs, extVars, moreVars>>

ThrottlerNext ==
    \/ \E p \in Acquirers : Acquire(p)
    \/ \E p \in Acquirers : AcquireWake(p)
    \/ ThrottlerTick

SpecThrottler == ThrottlerInit /\ [][ThrottlerNext]_vars

-----------------------------------------------------------------------------
(* Properties of the throttler *)

\* C17: acquire(n) returns only when the bucket holds at least n tokens and removes
\* exactly n, so the balance is never negative and never above max_tokens, for every
\* n >= 1 and every interleaving of acquirers.
C17_BalanceInRange ==
    bucket # Off =>
        /\ bucket.tokens >= 0
        /\ bucket.tokens <= bucket.max_tokens
        /\ bucket.last.returned =>
              (bucket.last.held >= bucket.last.n /\ bucket.last.left = bucket.last.held - bucket.last.n)

-----------------------------------------------------------------------------
(* with_retries *)

MaxRetries == 3

\* the exceptions func raises that "except Exception" catches
ErrorKinds == {"ValueError", "TimeoutError"}

\* an exception object: its class and the invocation that raised it (0: not raised by func)
Error(kind, at) == [kind |-> kind, at |-> at]

NoError == Error(None, 0)

\* the mutation of C18: the handler keeps the first exception it saw
FirstErrorKept(last_error, e) == IF last_error = NoError THEN e ELSE last_error

\* "last_error = e"
LastErrorAfter(last_error, e) == e

\* "while retries <= max_retries": the next invocation, or "raise last_error"
EnterLoop(r) ==
    IF r.retries <= r.max_retries
    THEN [r EXCEPT !.pc = "calling"]
    ELSE [r EXCEPT !.pc = "raised", !.error = r.last_error]

RetryInit ==
    /\ RunIdle
    /\ pin = NoParse
    /\ pout = NoDecision
    /\ hyb = NoHybrid
    /\ plog = <<>>
    /\ MoreIdle
    /\ ExtIdle
    /\ tool = Off
    /\ cache = Off
    /\ bucket = Off
    /\ \E max_retries \in 0..MaxRetries :
          retry = [pc |-> "start", max_retries |-> max_retries, retries |-> 0,
                   last_error |-> NoError, log |-> <<>>, value |-> 0, error |-> NoError]
    /\ ckpt = Off
    /\ dfs = Off

\* the call: retries = 0, last_error = None, the first loop test
RetryStart ==
    /\ retry.pc = "start"
    /\ retry' = EnterLoop(retry)
    /\ UNCHANGED <<coreVars, tool, cache, bucket, ckpt, dfs, extVars, moreVars>>

\* "return await func()": func returns (its result is numbered by invocation)
RetryFuncReturns ==
    /\ retry.pc = "calling"
    /\ retry' = [retry EXCEPT !.pc = "returned",
                               !.log = Append(retry.log, Error(None, Len(retry.log) + 1)),
                               !.value = Len(retry.log) + 1]
    /\ UNCHANGED <<coreVars, tool, cache, bucket, ckpt, dfs, extVars, moreVars>>

\* func raises an Exception: the handler up to the break or the sleep
RetryFuncRaises ==
    /\ retry.pc = "calling"
    /\ \E kind \in ErrorKinds :
          LET e == Error(kind, Len(retry.log) + 1)
              last_error == LastErrorAfter(retry.last_error, e)
              retries == retry.retries + 1
          IN  IF retries > retry.max_retries
              THEN retry' = [retry EXCEPT !.pc = "raised", !.log = Append(retry.log, e),
                                          !.last_error = last_error, !.retries = retries,
                                          !.error = last_error]
              ELSE retry' = [retry EXCEPT !.pc = "sleeping", !.log = Append(retry.log, e),
                                          !.last_error = last_error, !.retries = retries]
    /\ UNCHANGED <<coreVars, tool, cache, bucket, ckpt, dfs, extVars, moreVars>>

\* func raises a BaseException that "except Exception" lets through
RetryFuncCancelled ==
    /\ retry.pc = "calling"
    /\ LET e == Error("CancelledError", Len(retry.log) + 1)
       IN  retry' = [retry EXCEPT !.pc = "raised", !.log = Append(retry.log, e), !.error = e]
    /\ UNCHANGED <<coreVars, tool, cache, bucket, ckpt, dfs, extVars, moreVars>>

\* asyncio.sleep(delay) returns (the delay is positive and at most 1.2 * max_delay)
RetrySleepReturns ==
    /\ retry.pc = "sleeping"
    /\ retry' = EnterLoop(retry)
    /\ UNCHANGED <<coreVars, tool, cache, bucket, ckpt, dfs, extVars, moreVars>>

\* the task is cancelled during asyncio.sleep(delay)
RetrySleepCancelled ==
    /\ retry.pc = "sleeping"
    /\ retry' = [retry EXCEPT !.pc = "raised", !.error = Error("CancelledError", 0)]
    /\ UNCHANGED <<coreVars, tool, cache, bucket, ckpt, dfs, extVars, moreVars>>

RetryNext ==
    \/ RetryStart
    \/ RetryFuncReturns
    \/ RetryFuncRaises
    \/ RetryFuncCancelled
    \/ RetrySleepReturns
    \/ RetrySleepCancelled

\* func and asyncio.sleep terminate
SpecRetry == RetryInit /\ [][RetryNext]_vars /\ WF_vars(RetryNext)

-----------------------------------------------------------------------------
(* Properties of with_retries *)

RetryEnded == retry # Off /\ retry.pc \in {"returned", "raised"}

\* every one of the max_retries + 1 invocations was made and raised
AllInvocationsRaised ==
    /\ Len(retry.log) = retry.max_retries + 1
    /\ \A i \in DOMAIN retry.log : retry.log[i].kind # None

RetryBounded ==
    retry # Off =>
        /\ Len(retry.log) <= retry.max_retries + 1
        /\ \A i \in DOMAIN retry.log : retry.log[i].kind = None => i = Len(retry.log)
        /\ (retry.log # <<>> /\ retry.log[Len(retry.log)].kind = None)
              => (retry.pc = "returned" /\ retry.value = Len(retry.log))
        /\ retry.pc = "returned"
              => (retry.log # <<>> /\ retry.log[Len(retry.log)].kind = None)
        /\ AllInvocationsRaised
              => (retry.pc = "raised" /\ retry.error = retry.log[Len(retry.log)])

\* C18: with_retries(func, max_retries=k) invokes func at most k+1 times, returns the
\* result of the first invocation that succeeds without invoking func again, re-raises
\* the last exception when all k+1 invocations raise, and terminates when func does.
C18_RetryBounded == []RetryBounded /\ <>RetryEnded

\* all of two or more invocations raised, the first and the last with different exceptions
C18_Witness ==
    /\ retry # Off
    /\ retry.pc = "raised"
    /\ retry.max_retries >= 1
    /\ AllInvocationsRaised
    /\ retry.log[1].kind # retry.log[Len(retry.log)].kind

-----------------------------------------------------------------------------
(* WorkflowCheckpointer *)

MaxSaves == 2
MaxCheckpointClock == 1

\* execution ids, each as the sequence of its parts between underscores:
\* "run", "run_1" and "job"
ExecutionIds == {<<"run">>, <<"run", "1">>, <<"job">>}

\* the workflow states written
CheckpointStates == {"s1", "s2"}

\* f"{execution_id}_{timestamp}.json"
Filename(execution_id, timestamp) == [id |-> execution_id, ts |-> timestamp]

\* filename.startswith(f"{execution_id}_"): the parts of the id, each followed by an
\* underscore, begin the filename (ids have no part that is a timestamp)
StartsWithId(filename, execution_id) ==
    /\ Len(execution_id) <= Len(filename.id)
    /\ \A i \in DOMAIN execution_id : execution_id[i] = filename.id[i]

\* open(filepath, "w") and json.dump: the file is created or overwritten
WriteFile(files, filename, mtime, content) ==
    {f \in files : f.name # filename}
        \cup {[name |-> filename, mtime |-> mtime, content |-> content]}

RECURSIVE SortNewestFirst(_)
\* checkpoints.sort(key=getmtime, reverse=True); no two files share an mtime
SortNewestFirst(files) ==
    IF files = {} THEN <<>>
    ELSE LET newest == CHOOSE f \in files : \A g \in files : g.mtime <= f.mtime
         IN  <<newest>> \o SortNewestFirst(files \ {newest})

\* the files list_checkpoints returns, with the mtime they were sorted by
list_checkpoints(files, execution_id) ==
    SortNewestFirst({f \in files : StartsWithId(f.name, execution_id)})

\* the path get_latest_checkpoint returns and the state load_checkpoint reads
\* from it; found is FALSE where the path is None
get_latest_checkpoint(files, execution_id) ==
    LET checkpoints == list_checkpoints(files, execution_id)
    IN  IF checkpoints = <<>>
        THEN [found |-> FALSE, name |-> Filename(execution_id, 0), content |-> None]
        ELSE [found |-> TRUE, name |-> checkpoints[1].name, content |-> checkpoints[1].content]

NoListing == [called |-> FALSE, id |-> <<>>, checkpoints |-> <<>>]

NoLatest == [called |-> FALSE, id |-> <<>>, at |-> 0,
             answer |-> [found |-> FALSE, name |-> Filename(<<>>, 0), content |-> None]]

CheckpointInit ==
    /\ RunIdle
    /\ pin = NoParse
    /\ pout = NoDecision
    /\ hyb = NoHybrid
    /\ plog = <<>>
    /\ MoreIdle
    /\ ExtIdle
    /\ tool = Off
    /\ cache = Off
    /\ bucket = Off
    /\ retry = Off
    /\ ckpt = [pc |-> "ready", now |-> 0, files |-> {}, saves |-> <<>>,
               listing |-> NoListing, latest |-> NoLatest]
    /\ dfs = Off

\* save_checkpoint(execution_id, state); the file's mtime is later than that of
\* every file written before
SaveCheckpoint ==
    /\ ckpt.pc = "ready"
    /\ Len(ckpt.saves) < MaxSaves
    /\ \E execution_id \in ExecutionIds, content \in CheckpointStates :
          ckpt' = [ckpt EXCEPT
              !.files = WriteFile(ckpt.files, Filename(execution_id, ckpt.now),
                                  Len(ckpt.saves) + 1, content),
              !.saves = Append(ckpt.saves, [id |-> execution_id, content |-> content])]
    /\ UNCHANGED <<coreVars, tool, cache, bucket, retry, dfs, extVars, moreVars>>

\* datetime.now() reaches the next second
CheckpointTick ==
    /\ ckpt.pc = "ready"
    /\ ckpt.now < MaxCheckpointClock
    /\ ckpt' = [ckpt EXCEPT !.now = ckpt.now + 1]
    /\ UNCHANGED <<coreVars, tool, cache, bucket, retry, dfs, extVars, moreVars>>

\* list_checkpoints(execution_id)
ListCheckpoints ==
    /\ ckpt.pc = "ready"
    /\ \E execution_id \in ExecutionIds :
          ckpt' = [ckpt EXCEPT !.listing = [called |-> TRUE, id |-> execution_id,
                                            checkpoints |-> list_checkpoints(ckpt.files, execution_id)]]
    /\ UNCHANGED <<coreVars, tool, cache, bucket, retry, dfs, extVars, moreVars>>

\* get_latest_checkpoint(execution_id) and load_checkpoint of its answer
GetLatestCheckpoint ==
    /\ ckpt.pc = "ready"
    /\ \E execution_id \in ExecutionIds :
          ckpt' = [ckpt EXCEPT !.latest = [called |-> TRUE, id |-> execution_id,
                                           at |-> Len(ckpt.saves),
                                           answer |-> get_latest_checkpoint(ckpt.files, execution_id)]]
    /\ UNCHANGED <<coreVars, tool, cache, bucket, retry, dfs, extVars, moreVars>>

CheckpointNext ==
    \/ SaveCheckpoint
    \/ CheckpointTick
    \/ ListCheckpoints
    \/ GetLatestCheckpoint

SpecCheckpoint == CheckpointInit /\ [][CheckpointNext]_vars

-----------------------------------------------------------------------------
(* Properties of the checkpointer *)

\* the saves for execution_id among the first n saves
SavesFor(execution_id, n) == {i \in 1..n : ckpt.saves[i].id = execution_id}

\* C19: list_checkpoints(id) returns only checkpoints saved for id, newest first, and
\* get_latest_checkpoint(id) returns the checkpoint of the most recent save for id
\* (None when there is none), whose content is the last state saved for id.
C19_CheckpointResume ==
    ckpt # Off =>
        /\ ckpt.listing.called =>
              /\ \A i \in DOMAIN ckpt.listing.checkpoints :
                    ckpt.listing.checkpoints[i].name.id = ckpt.listing.id
              /\ \A i, j \in DOMAIN ckpt.listing.checkpoints :
                    i < j => ckpt.listing.checkpoints[i].mtime > ckpt.listing.checkpoints[j].mtime
        /\ ckpt.latest.called =>
              LET mine == SavesFor(ckpt.latest.id, ckpt.latest.at)
              IN  IF mine = {} THEN ~ckpt.latest.answer.found
                  ELSE LET last == CHOOSE i \in mine : \A k \in mine : k <= i
                       IN  /\ ckpt.latest.answer.found
                           /\ ckpt.latest.answer.name.id = ckpt.latest.id
                           /\ ckpt.latest.answer.content = ckpt.saves[last].content

-----------------------------------------------------------------------------
(* has_cycle *)

MaxNodes == 3
MaxEdges == 3

GraphNodes == 1..MaxNodes

RECURSIVE KeysOf(_, _)
\* the keys of the dict in insertion order: the sources of the edge list es in the
\* order of their first appearance, after the keys in seen
KeysOf(es, seen) ==
    IF es = <<>> THEN <<>>
    ELSE IF es[1][1] \in seen THEN KeysOf(Tail(es), seen)
    ELSE <<es[1][1]>> \o KeysOf(Tail(es), seen \cup {es[1][1]})

RECURSIVE TargetsOf(_, _)
\* the list stored under key node: the targets of its edges in es, in order
TargetsOf(es, node) ==
    IF es = <<>> THEN <<>>
    ELSE (IF es[1][1] = node THEN <<es[1][2]>> ELSE <<>>) \o TargetsOf(Tail(es), node)

RECURSIVE Ascending(_)
Ascending(S) ==
    IF S = {} THEN <<>> ELSE <<Min(S)>> \o Ascending(S \ {Min(S)})

\* the dict {source: [targets]} with the edges es and, after them, the keys in
\* empty that have an empty list
GraphOf(es, empty) ==
    LET sources == KeysOf(es, {})
        keys == sources \o Ascending(empty \ SeqToSet(sources))
    IN  [keys |-> keys,
         targets |-> [node \in SeqToSet(keys) |-> TargetsOf(es, node)]]

\* graph.get(node, [])
GraphGet(graph, node) ==
    IF node \in DOMAIN graph.targets THEN graph.targets[node] ELSE <<>>

\* the mutation of C20: every visited neighbour counts as a back-edge
InVisited(neighbor, st) == neighbor \in st.visited

\* "elif neighbor in rec_stack"
InRecStack(neighbor, st) == neighbor \in st.rec_stack

RECURSIVE dfs_visit(_, _, _)
RECURSIVE dfs_neighbors(_, _, _, _)
\* the nested dfs(node): found is its return value, visited and rec_stack the
\* sets it leaves behind
dfs_visit(graph, node, st) ==
    dfs_neighbors(graph, node, 1,
                  [found |-> FALSE,
                   visited |-> st.visited \cup {node},
                   rec_stack |-> st.rec_stack \cup {node}])

\* the loop over graph.get(node, []) from its i-th element on, and the lines after it
dfs_neighbors(graph, node, i, st) ==
    LET neighbors == GraphGet(graph, node)
    IN  IF i > Len(neighbors)
        THEN [st EXCEPT !.rec_stack = st.rec_stack \ {node}]
        ELSE IF neighbors[i] \notin st.visited
        THEN LET below == dfs_visit(graph, neighbors[i], st)
             IN  IF below.found THEN below
                 ELSE dfs_neighbors(graph, node, i + 1, below)
        ELSE IF InRecStack(neighbors[i], st)
        THEN [st EXCEPT !.found = TRUE]
        ELSE dfs_neighbors(graph, node, i + 1, st)

RECURSIVE check_each_node(_, _, _)
\* "for node in graph" from the i-th key on
check_each_node(graph, i, st) ==
    IF i > Len(graph.keys) THEN FALSE
    ELSE IF graph.keys[i] \notin st.visited
    THEN LET below == dfs_visit(graph, graph.keys[i], st)
         IN  IF below.found THEN TRUE
             ELSE check_each_node(graph, i + 1, below)
    ELSE check_each_node(graph, i + 1, st)

has_cycle(graph) ==
    check_each_node(graph, 1, [found |-> FALSE, visited |-> {}, rec_stack |-> {}])

CycleInit ==
    /\ RunIdle
    /\ pin = NoParse
    /\ pout = NoDecision
    /\ hyb = NoHybrid
    /\ plog = <<>>
    /\ MoreIdle
    /\ ExtIdle
    /\ tool = Off
    /\ cache = Off
    /\ bucket = Off
    /\ retry = Off
    /\ ckpt = Off
    /\ \E n \in 0..MaxEdges :
          \E es \in [1..n -> GraphNodes \X GraphNodes], empty \in SUBSET GraphNodes :
              dfs = [pc |-> "called", graph |-> GraphOf(es, empty), answer |-> FALSE]

\* has_cycle(graph) from call to return
HasCycle ==
    /\ dfs.pc = "called"
    /\ dfs' = [dfs EXCEPT !.pc = "returned", !.answer = has_cycle(dfs.graph)]
    /\ UNCHANGED <<coreVars, tool, cache, bucket, retry, ckpt, extVars, moreVars>>

CycleNext == HasCycle

SpecCycle == CycleInit /\ [][CycleNext]_vars

-----------------------------------------------------------------------------
(* Properties of has_cycle *)

\* the edges of the graph as pairs
EdgesOf(graph) ==
    {e \in GraphNodes \X GraphNodes :
        e[1] \in DOMAIN graph.targets /\ e[2] \in SeqToSet(graph.targets[e[1]])}

RECURSIVE ReachableFrom(_, _)
\* the least set that holds S and the targets of the edges leaving it
ReachableFrom(graph, S) ==
    LET more == S \cup {e[2] : e \in {d \in EdgesOf(graph) : d[1] \in S}}
    IN  IF more = S THEN S ELSE ReachableFrom(graph, more)

\* some node is reached from one of its own targets
HasDirectedCycle(graph) ==
    \E e \in EdgesOf(graph) : e[1] \in ReachableFrom(graph, {e[2]})

\* C20: has_cycle(graph) is true for every graph with a directed cycle (a self-loop
\* included, targets that are not keys allowed) and false for every acyclic graph
\* and for the empty graph.
C20_CycleDetection ==
    (dfs # Off /\ dfs.pc = "returned") => (dfs.answer = HasDirectedCycle(dfs.graph))

\* an acyclic graph in which a node is met again after its visit has ended, with a
\* target that is not a key
C20_Witness ==
    /\ dfs # Off
    /\ dfs.pc = "returned"
    /\ ~dfs.answer
    /\ \E i, j \in DOMAIN dfs.graph.keys :
          i < j /\ dfs.graph.keys[i] \in SeqToSet(dfs.graph.targets[dfs.graph.keys[j]])
    /\ \E e \in EdgesOf(dfs.graph) : e[2] \notin DOMAIN dfs.graph.targets

-----------------------------------------------------------------------------
(* Hybrid engine, iterative coordination *)

MaxRounds == 2
MaxWords == 2

\* the words of an output; "A" is the upper-case form of "a"
OutputWords == {"a", "A", "b"}

\* str.lower() on a word
WordLower(w) == IF w = "A" THEN "a" ELSE w

\* an output text: its words (what str.split() returns) and its length in characters
Text(words, chars) == [words |-> words, chars |-> chars]

\* the text of one-letter words separated by single blanks
Spaced(words) == Text(words, IF words = <<>> THEN 0 ELSE 2 * Len(words) - 1)

\* a text of one blank
BlankText == Text(<<>>, 1)

OutputTexts ==
    {BlankText} \cup {Spaced(ws) : ws \in UNION {[1..n -> OutputWords] : n \in 0..MaxWords}}

Max(a, b) == IF a >= b THEN a ELSE b

AbsDiff(a, b) == IF a >= b THEN a - b ELSE b - a

\* _calculate_difference as an exact fraction num / den; raised where the
\* division by max(len(text1.split()), len(text2.split())) is a division by zero
calculate_difference(text1, text2) ==
    IF text1.chars = 0 \/ text2.chars = 0
    THEN [raised |-> FALSE, num |-> 1, den |-> 1]
    ELSE LET len_diff_num == AbsDiff(text1.chars, text2.chars)
             len_diff_den == Max(text1.chars, text2.chars)
             shared_words == {WordLower(text1.words[i]) : i \in DOMAIN text1.words}
                                 \cap {WordLower(text2.words[i]) : i \in DOMAIN text2.words}
             most_words == Max(Len(text1.words), Len(text2.words))
         IN  IF most_words = 0
             THEN [raised |-> TRUE, num |-> 0, den |-> 1]
             ELSE [raised |-> FALSE,
                   num |-> 3 * len_diff_num * most_words
                           + 7 * (most_words - Cardinality(shared_words)) * len_diff_den,
                   den |-> 10 * len_diff_den * most_words]

\* "difference > 0.3"
VeryDifferent(d) == 10 * d.num > 3 * d.den

\* the teams and peer agents of the workflow, by id
IterUnits == {"team1", "peer1"}

\* the units whose entry has a non-empty history
Tracked(outputs) == {u \in DOMAIN outputs : outputs[u].history # <<>>}

\* the difference of the current and the previous output of unit u
DifferenceOf(outputs, u) ==
    calculate_difference(outputs[u].output, outputs[u].history[Len(outputs[u].history)])

\* _check_convergence: "stop", "continue" or "raised"
check_convergence(outputs, iteration) ==
    IF iteration = 0 THEN "continue"
    ELSE IF \E u \in Tracked(outputs) : DifferenceOf(outputs, u).raised THEN "raised"
    ELSE IF \E u \in Tracked(outputs) : VeryDifferent(DifferenceOf(outputs, u)) THEN "continue"
    ELSE "stop"

\* "Update team outputs / peer outputs with latest results": the entry of a unit
\* after a round in which it produced text
Updated(outputs, u, text) ==
    IF u \notin DOMAIN outputs
    THEN [output |-> text, history |-> <<>>]
    ELSE [output |-> text, history |-> Append(outputs[u].history, outputs[u].output)]

IterativeInit ==
    /\ RunIdle
    /\ pin = NoParse
    /\ pout = NoDecision
    /\ hyb = NoHybrid
    /\ plog = <<>>
    /\ MoreIdle
    /\ LibIdle
    /\ prompt = Off
    /\ \E max_iterations \in 1..MaxRounds :
          iter = [pc |-> "round", max_iterations |-> max_iterations, iteration |-> 0,
                  outputs |-> <<>>, verdict |-> "none", rounds |-> <<>>]

\* one pass of the loop body up to the convergence check: every team and every
\* peer agent is processed and its entry updated
IterRound ==
    /\ iter # Off
    /\ iter.pc = "round"
    /\ \E produced \in [IterUnits -> OutputTexts] :
          iter' = [iter EXCEPT
              !.pc = "check",
              !.outputs = [u \in IterUnits |-> Updated(iter.outputs, u, produced[u])],
              !.rounds = Append(iter.rounds, produced)]
    /\ UNCHANGED <<coreVars, libVars, prompt, moreVars>>

\* "if iteration > 0: should_stop = ...", the break and the loop test
IterCheck ==
    /\ iter # Off
    /\ iter.pc = "check"
    /\ LET verdict == IF iter.iteration > 0
                      THEN check_convergence(iter.outputs, iter.iteration)
                      ELSE "none"
       IN  iter' = [iter EXCEPT
               !.verdict = verdict,
               !.pc = IF verdict = "raised" THEN "raised"
                      ELSE IF verdict = "stop" \/ iter.iteration + 1 >= iter.max_iterations
                      THEN "done"
                      ELSE "round",
               !.iteration = IF verdict \in {"raised", "stop"}
                                \/ iter.iteration + 1 >= iter.max_iterations
                             THEN iter.iteration ELSE iter.iteration + 1]
    /\ UNCHANGED <<coreVars, libVars, prompt, moreVars>>

IterativeNext == IterRound \/ IterCheck

SpecIterative == IterativeInit /\ [][IterativeNext]_vars

-----------------------------------------------------------------------------
(* Properties of the iterative coordination *)

\* the convergence check of round 2 has been made and every unit produced in
\* round 2 the output it produced in round 1
SecondRoundIdentical ==
    /\ iter # Off
    /\ iter.pc \in {"round", "done", "raised"}
    /\ Len(iter.rounds) = 2
    /\ iter.rounds[1] = iter.rounds[2]

\* C21: when every team and peer produces in round 2 exactly its output of round 1,
\* the difference score of each pair is 0 and the convergence check reports stop
\* after round 2, for every output text.
C21_IdenticalRoundsConverge ==
    SecondRoundIdentical
        => /\ iter.verdict = "stop"
           /\ \A u \in IterUnits :
                 /\ ~DifferenceOf(iter.outputs, u).raised
                 /\ DifferenceOf(iter.outputs, u).num = 0

-----------------------------------------------------------------------------
(* AgentPromptCreator._enhance_agent_config *)

\* a key of the agent config that is not present
Absent == "absent"

\* the value of a boolean key: dict.get(key, default)
GetFlag(value, default) == IF value = Absent THEN default ELSE value = "true"

\* the pieces of text a system message is made of: two that a user writes and the
\* lines and blocks of get_agentic_system_instructions
UserPieces == {"be helpful", "never delegate to others"}

\* the agentic_keywords found in a piece of text (the match is case-sensitive:
\* "## Decision Format" and "You can use tools" hold none of them)
KeywordsIn(piece) ==
    CASE piece = "never delegate to others" -> {"delegate to"}
      [] piece \in {"delegate line supervisor", "delegate line agent", "delegate block"}
             -> {"delegate to", "[ACTION:"}
      [] piece \in {"tools line", "tool block"} -> {"[TOOL:"}
      [] piece \in {"final line", "final block"} -> {"[ACTION:"}
      [] OTHER -> {}

has_agentic_instructions(system_message) ==
    \E i \in DOMAIN system_message : KeywordsIn(system_message[i]) # {}

get_agentic_system_instructions(can_delegate, can_use_tools, can_finalize, autonomous_decisions, is_supervisor) ==
    <<"agentic heading", "agentic intro">>
    \o (IF can_delegate
        THEN IF is_supervisor THEN <<"delegate line supervisor">> ELSE <<"delegate line agent">>
        ELSE <<>>)
    \o (IF can_use_tools THEN <<"tools line">> ELSE <<>>)
    \o (IF can_finalize THEN <<"final line">> ELSE <<>>)
    \o <<"format heading", "format intro">>
    \o (IF can_delegate THEN <<"delegate block">> ELSE <<>>)
    \o (IF can_use_tools THEN <<"tool block">> ELSE <<>>)
    \o (IF can_finalize THEN <<"final block">> ELSE <<>>)
    \o (IF autonomous_decisions THEN <<"autonomous">> ELSE <<>>)

\* str.replace(placeholder, text) on a template given by the set of its parts
ReplacePart(parts, placeholder, text) ==
    IF placeholder \in parts THEN (parts \ {placeholder}) \cup {text} ELSE parts

\* a value of the key system_message or prompt_template: not there, None, or a text
Entry(kind, text) == [kind |-> kind, text |-> text]

\* _enhance_agent_config: the config returned, or raised with the exception
enhance_agent_config(agent_config, is_supervisor) ==
    IF agent_config.agentic_system_message = "false"
    THEN [raised |-> None, config |-> agent_config]
    ELSE IF agent_config.system_message.kind = "None"
    THEN [raised |-> "TypeError", config |-> agent_config]
    ELSE
    LET can_delegate == GetFlag(agent_config.can_delegate, TRUE)
        can_use_tools == GetFlag(agent_config.can_use_tools, TRUE)
        can_finalize == GetFlag(agent_config.can_finalize, is_supervisor)
        autonomous_decisions == GetFlag(agent_config.autonomous_decisions, TRUE)
        system_message == IF agent_config.system_message.kind = Absent
                          THEN <<>> ELSE agent_config.system_message.text
        with_message ==
            IF has_agentic_instructions(system_message) THEN agent_config
            ELSE [agent_config EXCEPT !.system_message =
                     Entry("text", system_message
                                   \o get_agentic_system_instructions(
                                          can_delegate, can_use_tools, can_finalize,
                                          autonomous_decisions, is_supervisor))]
    IN  IF agent_config.prompt_template.kind = "None"
        THEN [raised |-> "TypeError", config |-> with_message]
        ELSE IF agent_config.prompt_template.kind = Absent
        THEN [raised |-> "KeyError", config |-> with_message]
        ELSE [raised |-> None,
              config |-> [with_message EXCEPT !.prompt_template =
                  Entry("text",
                        ReplacePart(
                            ReplacePart(
                                ReplacePart(agent_config.prompt_template.text,
                                            "{make_decision}", "decision instructions"),
                                "{available_tools}", "tools at runtime"),
                            "{available_agents}", "agents at runtime"))]]

\* the values of a boolean key of the config
FlagValues == {Absent, "true", "false"}

\* the values of the key system_message
SystemMessages ==
    {Entry(Absent, <<>>), Entry("None", <<>>), Entry("text", <<>>)}
        \cup {Entry("text", <<piece>>) : piece \in UserPieces}

\* the values of the key prompt_template
PromptTemplates ==
    {Entry(Absent, {}), Entry("text", {}), Entry("text", {"{input}"}),
     Entry("text", {"{input}", "{make_decision}"}),
     Entry("text", {"{available_tools}", "{available_agents}"})}

EnhanceInit ==
    /\ RunIdle
    /\ pin = NoParse
    /\ pout = NoDecision
    /\ hyb = NoHybrid
    /\ plog = <<>>
    /\ MoreIdle
    /\ LibIdle
    /\ iter = Off
    /\ \E is_supervisor \in BOOLEAN, agentic_system_message \in {Absent, "false"},
          can_delegate \in FlagValues, can_use_tools \in FlagValues,
          can_finalize \in FlagValues, autonomous_decisions \in FlagValues,
          system_message \in SystemMessages, prompt_template \in PromptTemplates :
          LET config == [agentic_system_message |-> agentic_system_message,
                         can_delegate |-> can_delegate, can_use_tools |-> can_use_tools,
                         can_finalize |-> can_finalize,
                         autonomous_decisions |-> autonomous_decisions,
                         system_message |-> system_message,
                         prompt_template |-> prompt_template]
          IN  prompt = [pc |-> "config", is_supervisor |-> is_supervisor, config |-> config,
                        once |-> config, twice |-> config, error |-> None]

\* the enhancement of the agent config
Enhance ==
    /\ prompt # Off
    /\ prompt.pc = "config"
    /\ LET r == enhance_agent_config(prompt.config, prompt.is_supervisor)
       IN  prompt' = IF r.raised # None
                     THEN [prompt EXCEPT !.pc = "raised", !.error = r.raised]
                     ELSE [prompt EXCEPT !.pc = "enhanced", !.once = r.config, !.twice = r.config]
    /\ UNCHANGED <<coreVars, libVars, iter, moreVars>>

\* the enhancement of an enhanced agent config
EnhanceAgain ==
    /\ prompt # Off
    /\ prompt.pc = "enhanced"
    /\ LET r == enhance_agent_config(prompt.once, prompt.is_supervisor)
       IN  prompt' = IF r.raised # None
                     THEN [prompt EXCEPT !.pc = "raised", !.error = r.raised]
                     ELSE [prompt EXCEPT !.pc = "enhanced twice", !.twice = r.config]
    /\ UNCHANGED <<coreVars, libVars, iter, moreVars>>

EnhanceNext == Enhance \/ EnhanceAgain

SpecEnhance == EnhanceInit /\ [][EnhanceNext]_vars

-----------------------------------------------------------------------------
(* Properties of the enhancement *)

\* how often the decision-format instructions occur in a system message
RECURSIVE Occurrences(_, _)
Occurrences(text, piece) ==
    IF text = <<>> THEN 0
    ELSE (IF text[1] = piece THEN 1 ELSE 0) + Occurrences(Tail(text), piece)

\* C22: enhancing an agent config twice gives the config that enhancing it once
\* gives, and the decision-format instructions occur at most once in the system
\* message, for every combination of the capability flags and every system message.
C22_EnhanceIdempotent ==
    (prompt # Off /\ prompt.pc = "enhanced twice")
        => /\ prompt.twice = prompt.once
           /\ Occurrences(prompt.twice.system_message.text, "format heading") <= 1

\* C23: the enhancement returns normally for every agent config, those without a
\* prompt_template or without a system_message key included.
C23_EnhanceNeverRaises ==
    (prompt # Off /\ prompt.config.prompt_template.kind # "None"
                  /\ prompt.config.system_message.kind # "None")
        => prompt.pc # "raised"

-----------------------------------------------------------------------------
(* _build_agent_prompt and format_runtime_placeholders *)

\* the fixed placeholders of a prompt template
Placeholders ==
    {"{input}", "{context}", "{worker_outputs}", "{previous_outputs}", "{hub_output}",
     "{retrieved_information}", "{iteration}", "{available_agents}", "{available_tools}",
     "{previous_decisions}"}

\* what stands in the prompt where a placeholder stood: the placeholder itself
\* ("dangling"), a text taken from the run ("value"), the empty string ("empty"),
\* or a fixed sentence saying that there is nothing ("sentinel")
Joined(nonempty) == IF nonempty THEN "value" ELSE "empty"

\* _build_agent_prompt, placeholder by placeholder, for the agent and run ctx
build_agent_prompt(ph, ctx) ==
    CASE ph = "{input}" -> "value"
      [] ph = "{worker_outputs}" ->
             IF ctx.role = "supervisor" THEN Joined(ctx.others_have_output) ELSE "sentinel"
      [] ph = "{previous_outputs}" ->
             IF ctx.workflow_type = "swarm" THEN Joined(ctx.others_have_output) ELSE "sentinel"
      [] ph = "{hub_output}" ->
             IF ctx.workflow_type = "swarm" /\ ctx.interaction_type = "hub_and_spoke"
             THEN IF ctx.hub_in_state /\ ~ctx.is_hub
                  THEN Joined(ctx.hub_has_output) ELSE "sentinel"
             ELSE "dangling"
      [] ph = "{retrieved_information}" ->
             IF ctx.has_retrieval_tool
             THEN IF ctx.retrieval_raises THEN "sentinel" ELSE "value"
             ELSE "dangling"
      [] ph = "{iteration}" -> "value"
      [] OTHER -> "dangling"

\* format_runtime_placeholders on what is still a placeholder: replaced when the
\* list handed in is not empty
format_runtime_placeholders(ph, now, lists) ==
    IF now # "dangling" THEN now
    ELSE CASE ph = "{available_agents}" -> IF lists.available_agents THEN "value" ELSE now
           [] ph = "{available_tools}" -> IF lists.available_tools THEN "value" ELSE now
           [] ph = "{previous_decisions}" -> IF lists.previous_decisions THEN "value" ELSE now
           [] OTHER -> now

\* the templates rendered: without placeholders, with one, with all
RenderTemplates == {{}} \cup {{ph} : ph \in Placeholders} \cup {Placeholders}

\* an agent and the run it is rendered in
IsRenderContext(ctx) ==
    /\ ctx.workflow_type = "supervisor" =>
          (ctx.role \in {"supervisor", "worker"} /\ ctx.interaction_type = None)
    /\ ctx.workflow_type = "swarm" =>
          (ctx.role = "agent" /\ ctx.interaction_type \in {"sequential", "hub_and_spoke"})
    /\ ctx.workflow_type = "rag" => (ctx.role = "rag" /\ ctx.interaction_type = None)
    /\ (ctx.is_hub \/ ctx.hub_in_state \/ ctx.hub_has_output)
          => (ctx.interaction_type = "hub_and_spoke" /\ ctx.hub_in_state)
    /\ ctx.retrieval_raises => ctx.has_retrieval_tool

RenderInit ==
    /\ RunIdle
    /\ pin = NoParse
    /\ pout = NoDecision
    /\ hyb = NoHybrid
    /\ plog = <<>>
    /\ MoreIdle
    /\ LibIdle
    /\ iter = Off
    /\ \E template \in RenderTemplates,
          ctx \in [workflow_type : {"supervisor", "swarm", "rag"},
                   interaction_type : {None, "sequential", "hub_and_spoke"},
                   role : {"supervisor", "worker", "agent", "rag"},
                   is_hub : BOOLEAN, hub_in_state : BOOLEAN, hub_has_output : BOOLEAN,
                   others_have_output : BOOLEAN,
                   has_retrieval_tool : BOOLEAN, retrieval_raises : BOOLEAN] :
          /\ IsRenderContext(ctx)
          /\ prompt = [pc |-> "template", ctx |-> ctx,
                       rendered |-> [ph \in template |-> "dangling"]]

\* _build_agent_prompt
Render ==
    /\ prompt # Off
    /\ prompt.pc = "template"
    /\ prompt' = [prompt EXCEPT
           !.pc = "rendered",
           !.rendered = [ph \in DOMAIN prompt.rendered |-> build_agent_prompt(ph, prompt.ctx)]]
    /\ UNCHANGED <<coreVars, libVars, iter, moreVars>>

\* format_runtime_placeholders on the rendered prompt
FormatRuntime ==
    /\ prompt # Off
    /\ prompt.pc = "rendered"
    /\ \E lists \in [available_agents : BOOLEAN, available_tools : BOOLEAN,
                      previous_decisions : BOOLEAN] :
          prompt' = [prompt EXCEPT
              !.pc = "formatted",
              !.rendered = [ph \in DOMAIN prompt.rendered |->
                              format_runtime_placeholders(ph, prompt.rendered[ph], lists)]]
    /\ UNCHANGED <<coreVars, libVars, iter, moreVars>>

RenderNext == Render \/ FormatRuntime

SpecRender == RenderInit /\ [][RenderNext]_vars

-----------------------------------------------------------------------------
(* Properties of the rendering *)

\* C24: after a template is rendered for an agent none of the fixed placeholders
\* remains in the prompt; one that cannot be resolved for the agent's role and
\* topology is replaced by a not-available sentinel.
C24_NoDanglingPlaceholder ==
    (prompt # Off /\ prompt.pc \in {"rendered", "formatted"})
        => \A ph \in DOMAIN prompt.rendered : prompt.rendered[ph] # "dangling"

-----------------------------------------------------------------------------
(* Hybrid engine, dynamic coordination: the traversal from the coordinator.
   One team t1 (supervisor s1, worker w1) and one peer agent p1 are configured; the
   ids an output names after a delegation marker are the team, the worker, the peer
   agent and one unknown id. *)

MaxDelegations == 2

DynTeams == {"t1"}

\* all_agents: the supervisors and workers of the teams, and the peer agents
DynAgents == {"s1", "w1", "p1"}

DynIds == DynTeams \cup {"w1", "p1", "ghost"}

\* _extract_delegations: the ids listed after the markers of an output, in order
\* (an output is represented by the list it yields; repetitions are possible)
Delegations == UNION {[1..n -> DynIds] : n \in 0..MaxDelegations}

\* a traversal that forgets what it has processed
NeverProcessed(h, current_agent_id) == FALSE

\* "if current_agent_id in processed_agents: continue"
AlreadyProcessed(h, current_agent_id) == current_agent_id \in h.processed_agents

DynamicInit ==
    /\ RunIdle
    /\ pin = NoParse
    /\ pout = NoDecision
    /\ hyb = NoHybrid
    /\ plog = <<>>
    /\ ExtIdle
    /\ LibIdle
    /\ lru = Off
    /\ par = Off
    /\ \E coordinator \in DynIds \cup {None} :
          dyn = [pc |-> "start", coordinator |-> coordinator, processed_agents |-> {},
                 next_agents |-> <<>>, team_runs |-> [t \in DynTeams |-> 0],
                 agent_runs |-> [a \in DynAgents |-> 0], skipped |-> {}]

\* coordinator_id = coordination_config.get("coordinator"), ValueError when it is missing
DynStart ==
    /\ dyn.pc = "start"
    /\ dyn' = IF dyn.coordinator = None THEN [dyn EXCEPT !.pc = "raised"]
              ELSE [dyn EXCEPT !.pc = "loop", !.next_agents = <<dyn.coordinator>>]

\* one pass of "while next_agents" that does not call the Model Invoker: the id was
\* processed before, or it is neither a team nor a known agent
DynSkip ==
    /\ dyn.pc = "loop"
    /\ dyn.next_agents # <<>>
    /\ LET current_agent_id == Head(dyn.next_agents)
       IN  /\ \/ AlreadyProcessed(dyn, current_agent_id)
              \/ current_agent_id \notin DynTeams \cup DynAgents
           /\ dyn' = [dyn EXCEPT
                     !.next_agents = Tail(dyn.next_agents),
                     !.processed_agents = @ \cup {current_agent_id},
                     !.skipped = IF AlreadyProcessed(dyn, current_agent_id)
                                 THEN @ \cup {current_agent_id} ELSE @]

\* one pass that runs _process_team or _process_peer_agent to its return and extends
\* next_agents with the delegations of the output
DynProcess ==
    /\ dyn.pc = "loop"
    /\ dyn.next_agents # <<>>
    /\ LET current_agent_id == Head(dyn.next_agents)
       IN  /\ ~AlreadyProcessed(dyn, current_agent_id)
           /\ current_agent_id \in DynTeams \cup DynAgents
           /\ \E delegations \in Delegations :
                 dyn' = [dyn EXCEPT
                     !.processed_agents = @ \cup {current_agent_id},
                     !.next_agents = Tail(dyn.next_agents) \o delegations,
                     !.team_runs = IF current_agent_id \in DynTeams
                                   THEN [@ EXCEPT ![current_agent_id] = @ + 1] ELSE @,
                     !.agent_runs = IF current_agent_id \in DynTeams THEN @
                                    ELSE [@ EXCEPT ![current_agent_id] = @ + 1]]

\* the Model Invoker raises inside _process_team or _process_peer_agent
DynProcessRaises ==
    /\ dyn.pc = "loop"
    /\ dyn.next_agents # <<>>
    /\ LET current_agent_id == Head(dyn.next_agents)
       IN  /\ ~AlreadyProcessed(dyn, current_agent_id)
           /\ current_agent_id \in DynTeams \cup DynAgents
           /\ dyn' = [dyn EXCEPT
                     !.pc = "raised",
                     !.processed_agents = @ \cup {current_agent_id},
                     !.next_agents = Tail(dyn.next_agents)]

\* next_agents is empty: the loop ends
DynEnd ==
    /\ dyn.pc = "loop"
    /\ dyn.next_agents = <<>>
    /\ dyn' = [dyn EXCEPT !.pc = "traversed"]

DynamicNext ==
    /\ \/ DynStart
       \/ DynSkip
       \/ DynProcess
       \/ DynProcessRaises
       \/ DynEnd
    /\ UNCHANGED <<coreVars, libVars, extVars, lru, par>>

\* the loop is one coroutine: whenever a pass is possible it is eventually taken
SpecDynamic == DynamicInit /\ [][DynamicNext]_vars /\ WF_vars(DynamicNext)

-----------------------------------------------------------------------------
(* Properties of the dynamic coordination *)

DynEnded == dyn.pc \in {"traversed", "raised"}

\* each id is handed to _process_team or _process_peer_agent at most once
ProcessedOnce ==
    /\ \A t \in DynTeams : dyn.team_runs[t] <= 1
    /\ \A a \in DynAgents : dyn.agent_runs[a] <= 1

-----------------------------------------------------------------------------
(* HybridWorkflowEngine, coordination type "parallel" *)

ParTeams == {"t1", "t2"}
ParPeers == {"p1"}
ParIds == ParTeams \cup ParPeers
ParFinals == {None, "p1", "ghost"}

\* team_tasks followed by peer_tasks: the order in which the caller awaits them
ParOrder(teams, peers) ==
    LET Pick(s, keep) == SelectSeq(s, LAMBDA x : x \in keep)
    IN  Pick(<<"t1", "t2">>, teams) \o Pick(<<"p1">>, peers)

\* the value a task returns; it names the task that produced it
TaskResult(id) == id

ParallelInit ==
    /\ RunIdle
    /\ pin = NoParse
    /\ pout = NoDecision
    /\ hyb = NoHybrid
    /\ plog = <<>>
    /\ ExtIdle
    /\ LibIdle
    /\ lru = Off
    /\ dyn = Off
    /\ \E teams \in SUBSET ParTeams, peers \in SUBSET ParPeers, final_agent \in ParFinals :
          /\ teams \cup peers # {}
          /\ par = [pc |-> "start", teams |-> teams, peers |-> peers,
                    final_agent |-> final_agent,
                    tasks |-> [id \in ParIds |-> "none"],
                    outputs |-> [id \in ParIds |-> None],
                    awaited |-> 0, synthesis_calls |-> 0, success |-> None]

\* asyncio.create_task for every team and then for every peer agent
ParLaunch ==
    /\ par.pc = "start"
    /\ par' = [par EXCEPT !.pc = "awaiting",
                          !.tasks = [id \in ParIds |->
                                       IF id \in par.teams \cup par.peers
                                       THEN "running" ELSE "none"]]

\* a launched task runs to its end on the event loop, whatever its creator
\* does meanwhile: _process_team or _process_peer_agent returns or raises
ParTaskEnds(id) ==
    /\ par.pc # "start"
    /\ par.tasks[id] = "running"
    /\ \E outcome \in {"done", "failed"} :
          par' = [par EXCEPT !.tasks[id] = outcome]

\* team_outputs[team_id] = await task, peer_outputs[agent_id] = await task:
\* the caller resumes when the awaited task has ended, with its result or
\* with its exception, which execute_workflow turns into a failure result
ParAwait ==
    /\ par.pc = "awaiting"
    /\ LET order == ParOrder(par.teams, par.peers)
           id == order[par.awaited + 1]
       IN  /\ par.awaited < Len(order)
           /\ par.tasks[id] \in {"done", "failed"}
           /\ IF par.tasks[id] = "failed"
              THEN par' = [par EXCEPT !.pc = "returned", !.success = FALSE]
              ELSE par' = [par EXCEPT !.outputs[id] = TaskResult(id),
                                      !.awaited = par.awaited + 1]

\* final output: a call of the final agent when it is one of all_agents, no
\* call when it is unknown, the synthesis call when none is configured; the
\* call may raise
ParFinal ==
    /\ par.pc = "awaiting"
    /\ par.awaited = Len(ParOrder(par.teams, par.peers))
    /\ IF par.final_agent # None /\ par.final_agent \notin par.peers
       THEN par' = [par EXCEPT !.pc = "returned", !.success = TRUE]
       ELSE \E raised \in BOOLEAN :
               par' = [par EXCEPT !.pc = "returned", !.success = ~raised,
                                  !.synthesis_calls = par.synthesis_calls + 1]

ParallelNext ==
    /\ \/ ParLaunch
       \/ \E id \in ParIds : ParTaskEnds(id)
       \/ ParAwait
       \/ ParFinal
    /\ UNCHANGED <<coreVars, libVars, extVars, lru, dyn>>

SpecParallel == ParallelInit /\ [][ParallelNext]_vars

Launched == {id \in ParIds : par.tasks[id] # "none"}

\* C38: in parallel coordination the final call is made only after every
\* launched task has completed, each stored result is the one of the task of
\* that id, and no launched task is still running when execute_workflow has
\* returned, with success or with a failure.
C38_ParallelJoin ==
    /\ par.synthesis_calls > 0 => \A id \in Launched : par.tasks[id] = "done"
    /\ \A id \in ParIds : par.outputs[id] # None => par.outputs[id] = TaskResult(id)
    /\ par.pc = "returned" => \A id \in Launched : par.tasks[id] # "running"

-----------------------------------------------------------------------------
(* Properties of the run *)

LastEntry == state.history[Len(state.history)]

\* C1: the router pass that takes the iteration counter from max_iterations to
\* max_iterations + 1 leaves next_agent = final on the router's current agent, and
\* the conditional edge then selects the final node, whatever the agent decided.
C1_RouterCap ==
    [][(state.iteration = cfg.max_iterations /\ state'.iteration = cfg.max_iterations + 1)
         => /\ state'.agents[state.current_agent].next_agent = "final"
            /\ pc' = "final"]_vars

\* the cap overrode an agent that had just asked to go on (a delegation or a tool request)
C1_Witness ==
    /\ pc = "final"
    /\ cfg.max_iterations >= 1
    /\ state.iteration = cfg.max_iterations + 1
    /\ Len(state.history) >= 2
    /\ LastEntry.action = "max_iterations_reached"
    /\ state.history[Len(state.history) - 1].action \in {"delegate", "use_tool"}

\* a step of the router node: control leaves the router
RouterPass == pc = "router" /\ pc' # "router"

\* C25: the iteration counter starts at 0, increases by exactly 1 on each router pass
\* and is left alone by every other step (so it never decreases), and it never exceeds
\* max_iterations + 1.
C25_IterationCounter ==
    /\ state.iteration = 0
    /\ [][IF RouterPass THEN state'.iteration = state.iteration + 1
                        ELSE state'.iteration = state.iteration]_vars
    /\ [](state.iteration <= cfg.max_iterations + 1)

\* a run that made several router passes, the last one at the cap, and went on to final
C25_Witness ==
    /\ pc = "returned"
    /\ cfg.max_iterations >= 2
    /\ state.iteration = cfg.max_iterations + 1
    /\ Cardinality({i \in DOMAIN state.history :
                       state.history[i].action \in {"route", "max_iterations_reached"}})
          = state.iteration

\* the fields of a WorkflowState the node functions may not share with their result
SameGiven(given, st) ==
    /\ \A n \in DOMAIN st.agents :
          /\ given.agents[n].messages = st.agents[n].messages
          /\ FinalOf(given, n) = FinalOf(st, n)
          /\ given.agents[n].tools_used = st.agents[n].tools_used
          /\ given.agents[n].next_agent = st.agents[n].next_agent
    /\ given.history = st.history
    /\ DOMAIN given.execution_graph = DOMAIN st.execution_graph
    /\ \A k \in DOMAIN st.execution_graph :
          given.execution_graph[k] = st.execution_graph[k]

\* C26: the router, the agent's response processing and the final node each leave the
\* WorkflowState they were given as it was (messages, outputs, tools_used and next_agent
\* of every AgentState, the history, the execution_graph lists).
C26_NoAliasing ==
    [][/\ RouterPass => SameGiven(GivenAfterRouter(cfg, state), state)
       /\ (pc \in AgentNames(cfg) /\ state.agents[pc].messages # <<>>)
             => \A content \in RunReplies(cfg, pc) :
                   state' = process_agent_response(cfg, state, pc, content)
                       => SameGiven(GivenAfterResponse(cfg, state, pc, content), state)
       /\ (pc = "final" /\ pc' = "END") => SameGiven(GivenAfterFinal(cfg, state), state)]_vars

\* the node that ran before this router pass was a spoke, and it replied
SpokeReplied ==
    /\ cfg.base.itype = "hub_and_spoke"
    /\ pc = "router"
    /\ state.history # <<>>
    /\ LastEntry.action \in {"delegate", "respond", "final", "use_tool"}
    /\ cfg.base.roles[LastEntry.agent] = "spoke"

\* C27: in a hub-and-spoke run the router pass that follows a spoke's reply hands control
\* to the hub, never to the final node, unless the iteration cap forces final.
C27_SpokeReturnsToHub ==
    [][(SpokeReplied /\ RouterPass)
         => \/ pc' = cfg.base.hub_agent
            \/ /\ pc' = "final"
               /\ state'.history[Len(state'.history)].action = "max_iterations_reached"]_vars

\* the position of an agent in the declared order
PositionOf(c, n) == CHOOSE i \in DOMAIN c.base.order : c.base.order[i] = n

\* the node after the agent at position i of a sequential swarm
SuccessorOf(c, i) == IF i < Len(c.base.order) THEN c.base.order[i + 1] ELSE "final"

\* C28: in a sequential swarm the router pass that follows the reply of the agent declared
\* at position i goes to the agent declared at position i + 1, to final after the last
\* agent, or to final when the cap is hit.
C28_SequentialOrder ==
    [][(/\ cfg.base.wtype = "swarm" /\ cfg.base.itype = "sequential"
        /\ RouterPass
        /\ state.history # <<>>
        /\ LastEntry.action \in {"delegate", "respond", "final", "use_tool"})
         => \/ pc' = SuccessorOf(cfg, PositionOf(cfg, LastEntry.agent))
            \/ /\ pc' = "final"
               /\ state'.history[Len(state'.history)].action = "max_iterations_reached"]_vars

\* the agent whose output the final node is said to return: the supervisor, the hub, the
\* agent invoked last (sequential swarm), the sole agent (RAG)
AnsweringAgent ==
    CASE cfg.base.wtype = "supervisor" -> cfg.base.order[1]
      [] cfg.base.wtype = "swarm" /\ cfg.base.itype = "hub_and_spoke" -> cfg.base.hub_agent
      [] cfg.base.wtype = "swarm" -> invocations[Len(invocations)]
      [] OTHER -> cfg.base.order[1]

PlainReply ==
    /\ pc = "router"
    /\ state.history # <<>>
    /\ LastEntry.action \in {"delegate", "respond", "final", "use_tool"}
    /\ FinalOf(state, LastEntry.agent) \in {<<Words("text")>>, <<>>}

\* the supervisor or hub among the configured agents, None when there is none
Coordinator ==
    LET I == {i \in DOMAIN cfg.base.order :
                 \/ cfg.base.roles[cfg.base.order[i]] = "supervisor"
                 \/ cfg.base.order[i] = cfg.base.hub_agent}
    IN  IF I = {} THEN None ELSE cfg.base.order[Min(I)]

\* C31: a plain reply is decided by the speaker's role: a supervisor with a worker, on its
\* first iteration, delegates to its first worker; a supervisor later gives final; a worker
\* or spoke delegates to the supervisor or hub when the agents include one; any other
\* speaker responds.
C31_RoleDefault ==
    PlainReply
        => LET speaker == LastEntry.agent
               role == cfg.base.roles[speaker]
               workers == SelectSeq(cfg.base.order, LAMBDA n : cfg.base.roles[n] = "worker")
           IN  CASE role = "supervisor" /\ workers # <<>> /\ state.iteration = 0 ->
                        LastEntry.action = "delegate" /\ LastEntry.target = workers[1]
                 [] role = "supervisor" -> LastEntry.action = "final"
                 [] role \in {"worker", "spoke"} /\ Coordinator # None ->
                        LastEntry.action = "delegate" /\ LastEntry.target = Coordinator
                 [] OTHER -> LastEntry.action = "respond"

\* C32: with an execution-graph allow-list in the configuration, a router pass hands over to
\* another agent only along an edge of the list; a target the list does not permit for the current
\* agent is replaced by the agent's first allowed target.
C32_RouterAllowList ==
    [][\A allowed \in AllowLists(cfg) :
          (RouterPass /\ pc' \in AgentNames(cfg) /\ pc' # LastEntry'.agent)
             => LET current_agent == LastEntry'.agent
                    next_agent == state.agents[current_agent].next_agent
                IN  /\ pc' \in SeqToSet(allowed[current_agent])
                    /\ next_agent \notin SeqToSet(allowed[current_agent])
                          => pc' = allowed[current_agent][1]]_vars

\* the list execution_graph holds for agent k, empty when k has no key yet
EdgesFrom(graph, k) == IF k \in DOMAIN graph THEN graph[k] ELSE <<>>

\* C33: every target recorded in execution_graph is a configured agent and never final, and
\* a step extends the list of agent A by B only when A's Decision of that step is a
\* delegation to B; no step changes the lists in any other way.
C33_GraphEdges ==
    /\ [](\A k \in DOMAIN state.execution_graph :
            \A i \in DOMAIN state.execution_graph[k] :
               /\ state.execution_graph[k][i] \in AgentNames(cfg)
               /\ state.execution_graph[k][i] # "final")
    /\ [][\A k \in DOMAIN state'.execution_graph :
             EdgesFrom(state'.execution_graph, k) # EdgesFrom(state.execution_graph, k)
                => /\ state'.history # <<>>
                   /\ state'.history[Len(state'.history)].agent = k
                   /\ state'.history[Len(state'.history)].action = "delegate"
                   /\ state'.execution_graph[k]
                        = Append(EdgesFrom(state.execution_graph, k),
                                 state'.history[Len(state'.history)].target)]_vars

\* a finished run in which one agent's delegation was recorded and another agent's final
\* decision left its list empty
C33_Witness ==
    /\ pc = "returned"
    /\ \E a, b \in DOMAIN state.execution_graph :
          /\ state.execution_graph[a] # <<>>
          /\ state.execution_graph[b] = <<>>
          /\ \E i \in DOMAIN state.history :
                state.history[i].agent = b /\ state.history[i].action = "final"

\* C34: every step leaves the earlier history entries in place and only appends at the end;
\* a router pass appends exactly one entry (a route or a cap entry), an agent's turn at most
\* one entry naming that agent, the final node exactly one final_output entry.
C34_HistoryAppendOnly ==
    [][/\ Len(state'.history) >= Len(state.history)
       /\ SubSeq(state'.history, 1, Len(state.history)) = state.history
       /\ RouterPass
             => /\ Len(state'.history) = Len(state.history) + 1
                /\ state'.history[Len(state'.history)].action
                      \in {"route", "max_iterations_reached"}
       /\ (pc \in AgentNames(cfg) /\ pc' = "router")
             => /\ Len(state'.history) <= Len(state.history) + 1
                /\ Len(state'.history) > Len(state.history)
                      => state'.history[Len(state'.history)].agent = pc
       /\ (pc = "final" /\ pc' = "END")
             => /\ Len(state'.history) = Len(state.history) + 1
                /\ state'.history[Len(state'.history)].action = "final_output"]_vars

\* a finished run whose history holds a reply, a failed invocation, router passes and the
\* final entry, in that order
C34_Witness ==
    /\ pc = "returned"
    /\ Len(state.history) >= 5
    /\ state.history[1].action = "delegate"
    /\ state.history[2].action = "route"
    /\ state.history[3].action = "error"
    /\ LastEntry.action = "final_output"

\* C2: a run ends only through the final node (which sets final_output), and never
\* makes more than max_iterations + 1 router passes.
C2_RunEndsThroughFinal ==
    /\ state.iteration <= cfg.max_iterations + 1
    /\ pc \in {"raised", "returned"} => state.final_output # None

\* C3: the router pass that follows a Model Invoker failure goes to the final node.
C3_ErrorRoutesToFinal ==
    [][(/\ pc = "router"
        /\ state.history # <<>>
        /\ LastEntry.action = "error"
        /\ state'.iteration = state.iteration + 1)
         => pc' = "final"]_vars

\* the supervisor's first reply is the explicit delegation to W1
ScenarioA ==
    /\ cfg.base = SupervisorConfig
    /\ cfg.max_iterations >= 2
    /\ state.history # <<>>
    /\ state.history[1] = HistoryEntry("S", "delegate", "W1")

\* C4: in scenario A the agent dispatched after the supervisor is W1 (not W2), and once
\* W1 has replied and the router has run again, the supervisor is the next agent invoked.
C4_ScenarioAControl ==
    ScenarioA =>
        /\ Len(invocations) >= 2 => invocations[2] = "W1"
        /\ (Len(invocations) >= 2 /\ state.iteration >= 2)
              => \/ pc = "S"
                 \/ Len(invocations) >= 3 /\ invocations[3] = "S"

\* the run was fed scenario A's replies: S delegates to W1, W1 replies, and every
\* later reply of S is the final tag; no other agent speaks and no call fails
ScenarioAReplies ==
    /\ ScenarioA
    /\ \E i \in DOMAIN state.history :
          state.history[i].agent = "W1" /\ state.history[i].action \in {"delegate", "final", "respond"}
    /\ \A i \in DOMAIN state.history :
          /\ state.history[i].agent # "W2"
          /\ state.history[i].action # "error"
          /\ (i > 1 /\ state.history[i].agent = "S"
                /\ state.history[i].action \notin {"route", "max_iterations_reached"})
                => state.history[i].action = "final"

\* C5: the result of scenario A carries execution_graph = {"S": ["W1"]}.
C5_ScenarioAGraph ==
    (ScenarioAReplies /\ pc = "returned")
        => /\ result.success
           /\ result.execution_graph = [k \in {"S"} |-> <<"W1">>]

Spokes == {"p1", "p2", "p3"}

\* C6: a hub-and-spoke run with 3 spokes and max_iterations = 5 whose hub delegates
\* has, when it returns, invoked the three spokes right after the hub's turn and then
\* the hub again, ends with the hub's output, and its iteration counter is 4.
C6_ScenarioB ==
    (/\ cfg.base = HubConfig
     /\ cfg.max_iterations = 5
     /\ pc = "returned"
     /\ state.history[1] \in {HistoryEntry("hub", "delegate", p) : p \in Spokes})
        => /\ Len(invocations) >= 5
           /\ {invocations[2], invocations[3], invocations[4]} = Spokes
           /\ invocations[5] = "hub"
           /\ state.iteration = 4
           /\ result.success
           /\ result.final_output = FinalOf(state, "hub")

\* C9: once the execution is canceled, the Model Invoker is not called again.
C9_NoInvocationAfterCancel ==
    [][status = "canceled" => invocations' = invocations]_vars

-----------------------------------------------------------------------------
(* Properties of the hybrid engine *)

\* C7: a failed result carries an error, and when team output had accumulated before
\* the failure it carries those partial outputs and the execution graph built so far.
C7_FailureCarriesPartial ==
    (hyb.pc = "returned" /\ ~hyb.result.success /\ hyb.team_outputs # {})
        => /\ hyb.result.error
           /\ hyb.result.has_outputs
           /\ hyb.result.outputs = hybrid_success(hyb).outputs
           /\ hyb.result.has_graph
           /\ hyb.result.execution_graph = hyb.execution_graph

\* no team and no peer agent, an empty query, or a team without supervisor or workers
HybridInvalid ==
    \/ hyb.teams = <<>> /\ hyb.peers = 0
    \/ ~hyb.query
    \/ \E i \in DOMAIN hyb.teams : ~hyb.teams[i].supervisor \/ hyb.teams[i].workers = 0

\* C8: with an invalid configuration no Model Invoker call is ever made.
C8_FailFast ==
    (hyb.pc # "off" /\ HybridInvalid) => hyb.calls = 0

-----------------------------------------------------------------------------
(* Properties of the parser *)

\* the try block of the call on pin raised
ParseRaisedInside ==
    ParseStrategies(pin.content, pin.agent_name, pin.agent_role, pin.context).action_type = "raised"

\* C11: parse_agent_decision always returns a Decision whose action_type is delegate,
\* use_tool, final or respond (malformed tags, tool bodies that are not JSON and a
\* context without keys included), and an exception inside it yields a respond Decision.
C11_ParserTotal ==
    pout.action_type # None
        => /\ pout.action_type \in {"delegate", "use_tool", "final", "respond"}
           /\ ParseRaisedInside => (pout.action_type = "respond" /\ pout.content = pin.content)

\* a call whose Strategy 3 pattern did not compile came back as a respond Decision
C11_Witness ==
    /\ pout.action_type = "respond"
    /\ ParseRaisedInside
    /\ pin.content # <<>>

ExplicitDelegateTag ==
    /\ FirstOf(pin.content, "action") # 0
    /\ pin.content[FirstOf(pin.content, "action")].verb = "delegate to"
    /\ pin.content[FirstOf(pin.content, "action")].name \in SeqToSet(pin.context.available_agents)
    /\ FirstOf(pin.content, "tool") = 0

\* C10: a reply with an explicit "delegate to W" tag (W a known agent) parses as a
\* delegation to W, whatever natural-language phrase ("final answer", "ask X") it also holds.
C10_TagOutranksLanguage ==
    (pout.action_type # None /\ ExplicitDelegateTag)
        => /\ pout.action_type = "delegate"
           /\ pout.target = pin.content[FirstOf(pin.content, "action")].name

\* the reply's first ACTION tag reads "delegate to X"
DelegateToTag ==
    /\ FirstOf(pin.content, "action") # 0
    /\ pin.content[FirstOf(pin.content, "action")].verb = "delegate to"

TaggedAgent == pin.content[FirstOf(pin.content, "action")].name

\* C30: a reply tagged "[ACTION: delegate to X]" with X a configured agent (in the letter
\* case of the configuration) parses as a delegation to exactly X whose content is the
\* CONTENT block when there is one and the whole reply otherwise; with X not configured the
\* Decision is never a delegation to X; every delegation's target is a configured agent.
C30_ExplicitDelegation ==
    pout.action_type # None
        => /\ (DelegateToTag /\ TaggedAgent \in SeqToSet(pin.context.available_agents))
                 => /\ pout.action_type = "delegate"
                    /\ pout.target = TaggedAgent
                    /\ pout.content = ContentToSend(pin.content)
           /\ (DelegateToTag /\ TaggedAgent \notin SeqToSet(pin.context.available_agents))
                 => ~(pout.action_type = "delegate" /\ pout.target = TaggedAgent)
           /\ pout.action_type = "delegate"
                 => pout.target \in SeqToSet(pin.context.available_agents)

\* the history entries written by agent nodes (a reply or an error), as opposed to the
\* router's and the final node's
AgentTurn(e) == e.action \notin {"route", "max_iterations_reached", "final_output"}

\* the positions of the turns in which agent a named a target that was recorded as an edge
RECURSIVE EdgeTurns(_, _, _)
EdgeTurns(h, a, i) ==
    IF i > Len(h) THEN <<>>
    ELSE IF /\ h[i].agent = a
            /\ AgentTurn(h[i])
            /\ h[i].target # None
            /\ h[i].target # "final"
         THEN <<i>> \o EdgeTurns(h, a, i + 1)
         ELSE EdgeTurns(h, a, i + 1)

\* C39: in a run that has returned its result, every edge A->B of execution_graph stands
\* for a hand-off that took place: after the turn of A that recorded it, B was invoked
\* (a reply or an error of B follows in the history).
C39_AuditTrailFaithful ==
    (pc = "returned" /\ result.success) =>
        \A a \in DOMAIN state.execution_graph :
           LET turns == EdgeTurns(state.history, a, 1)
           IN  /\ Len(turns) = Len(state.execution_graph[a])
               /\ \A k \in DOMAIN turns :
                     \E j \in (turns[k] + 1)..Len(state.history) :
                        /\ state.history[j].agent = state.execution_graph[a][k]
                        /\ AgentTurn(state.history[j])

\* the statuses after which the execution record is meant to stay as it is
TerminalStatuses == {"canceled", "completed", "failed"}

\* C40: once the status of the execution record is canceled, completed or failed, no later
\* step changes it, wherever the cancel request falls among the steps of the background run.
C40_TerminalStatusFinal ==
    [][(status \in TerminalStatuses) => (status' = status)]_vars

====
